---- MODULE Spec2Model ----
(***************************************************************************)
(* Adobe CMap support of pdfminer (pdfminer/cmapdb.py): the code -> CID    *)
(* trie (CMap, FileCMap), the identity map, the CID -> Unicode table with  *)
(* its bfrange extrapolation index (FileUnicodeMap), and the CMap          *)
(* interpreter (CMapParser) with its post-pass (fixup_cmaps).              *)
(*                                                                         *)
(* Python values are modelled as follows.  A byte string is a sequence of  *)
(* numbers 0..255.  A unicode text is a sequence of code points.  The      *)
(* nested dicts of CMap.code2cid are a function from the paths of the trie *)
(* (non-empty byte sequences) to nodes: a leaf holding a CID or an inner   *)
(* dict.  An exception is the name of its class, "" when none was raised.  *)
(* Where it matters which dict object a store holds (SpecHeap,            *)
(* SpecThreads), dicts and stores are the cells of heap, and a store or a  *)
(* dict is referred to by its identity.                                    *)
(***************************************************************************)
EXTENDS Integers, Sequences, FiniteSets, TLC

VARIABLES
    klass,                \* the class of the store being built: "FileCMap" or "FileUnicodeMap"
    attrs,                \* CMapBase.attrs of the store being built
    code2cid,             \* CMap.code2cid of the store being built
    cid2unichr,           \* UnicodeMap.cid2unichr of the store being built
    bfranges,             \* FileUnicodeMap.bfranges
    curstack,             \* PSStackParser.curstack: the operand stack (objects only)
    in_cmap,              \* CMapParser._in_cmap
    cmap_bfrange_items,   \* CMapParser.cmap_bfrange_items
    drop_bfrange_items,   \* CMapParser.drop_bfrange_items
    pc,                   \* where the parser is: "parse", "done" (run returned), "raised"
    _cmap_cache,          \* CMapDB._cmap_cache: name -> store
    _umap_cache,          \* CMapDB._umap_cache: name -> the stores for vertical = False, True
    cmap_paths,           \* the directories of _load_data, in order: file name -> content
    heap,                 \* the dicts and stores that are shared by reference, by identity
    threads,              \* the threads inside a method of CMapDB: their locals and position
    call,                 \* the last call made on the store or the parser, with its result
    hist                  \* what the current store was fed so far (for the properties)

vars == <<klass, attrs, code2cid, cid2unichr, bfranges, curstack, in_cmap, cmap_bfrange_items,
          drop_bfrange_items, pc, _cmap_cache, _umap_cache, cmap_paths, heap, threads, call, hist>>

storeVars == <<klass, attrs, code2cid, cid2unichr, bfranges>>

parserVars == <<curstack, in_cmap, cmap_bfrange_items, drop_bfrange_items, pc>>

dbVars == <<_cmap_cache, _umap_cache, cmap_paths>>

heapVars == <<heap, threads>>

-----------------------------------------------------------------------------
(* Sequence helpers.                                                       *)

Last(s) == s[Len(s)]

Front(s) == SubSeq(s, 1, Len(s) - 1)

\* Python's s[-n:] : the last n elements; the whole of s when n = 0 (s[-0:] is
\* s[0:]) or when n >= len(s).
lastn(s, n) == IF n = 0 \/ n >= Len(s) THEN s ELSE SubSeq(s, Len(s) - n + 1, Len(s))

\* Python's s[:-n] for n > 0 : all but the last n elements.
butlastn(s, n) == IF n >= Len(s) THEN <<>> ELSE SubSeq(s, 1, Len(s) - n)

IsPrefix(p, s) == Len(p) <= Len(s) /\ SubSeq(s, 1, Len(p)) = p

RECURSIVE Concat(_)
Concat(ss) == IF ss = <<>> THEN <<>> ELSE Head(ss) \o Concat(Tail(ss))

\* All sequences over S of length 0..n.
SeqsUpTo(S, n) == UNION {[1..k -> S] : k \in 0..n}

Range(f) == {f[x] : x \in DOMAIN f}

-----------------------------------------------------------------------------
(* The Unicode block table and its lookup.                                 *)

unicode_charset_map == <<
    <<0, 127>>, <<128, 255>>, <<256, 383>>, <<384, 591>>, <<592, 687>>, <<688, 767>>,
    <<768, 879>>, <<880, 1023>>, <<1024, 1279>>, <<1280, 1327>>, <<1328, 1423>>, <<1424, 1535>>,
    <<1536, 1791>>, <<1792, 1871>>, <<1872, 1919>>, <<1920, 1983>>, <<1984, 1919>>, <<2048, 2143>>,
    <<2144, 2175>>, <<2176, 2223>>, <<2304, 2431>>, <<2432, 2559>>, <<2560, 2687>>, <<2688, 2815>>,
    <<2816, 2943>>, <<2944, 3071>>, <<3072, 3199>>, <<3200, 3327>>, <<3328, 3455>>, <<3456, 3583>>,
    <<3584, 3711>>, <<3712, 3839>>, <<3840, 4095>>, <<4096, 4255>>, <<4256, 4351>>, <<4352, 4607>>,
    <<4608, 4991>>, <<4992, 5023>>, <<5024, 5119>>, <<5120, 5759>>, <<5760, 5791>>, <<5792, 5887>>,
    <<5888, 5919>>, <<5920, 5951>>, <<5952, 5983>>, <<5984, 6015>>, <<6016, 6143>>, <<6144, 6319>>,
    <<6320, 6399>>, <<6400, 6479>>, <<6480, 6527>>, <<6528, 6623>>, <<6624, 6655>>, <<6656, 6687>>,
    <<6688, 6751>>, <<6784, 6895>>, <<6912, 7039>>, <<7040, 7088>>, <<7104, 7167>>, <<7168, 7247>>,
    <<7248, 7295>>, <<7296, 7391>>, <<7424, 7551>>, <<7552, 7615>>, <<7616, 7679>>, <<7680, 7935>>,
    <<7936, 8191>>, <<8192, 8303>>, <<8304, 8351>>, <<8352, 8399>>, <<8400, 8447>>, <<8448, 8527>>,
    <<8528, 8591>>, <<8592, 8703>>, <<8704, 8959>>, <<8960, 9215>>, <<9216, 9279>>, <<9280, 9311>>,
    <<9312, 9471>>, <<9472, 9599>>, <<9600, 9631>>, <<9632, 9727>>, <<9728, 9983>>, <<9984, 10175>>,
    <<10176, 10223>>, <<10224, 10239>>, <<10240, 10495>>, <<10496, 10623>>, <<10624, 10751>>, <<10752, 11007>>,
    <<11008, 11263>>, <<11264, 11359>>, <<11360, 11391>>, <<11392, 11519>>, <<11520, 11567>>, <<11568, 11647>>,
    <<11648, 11743>>, <<11776, 11903>>, <<11904, 12031>>, <<12032, 12255>>, <<12272, 12287>>, <<12288, 12351>>,
    <<12352, 12447>>, <<12448, 12543>>, <<12544, 12591>>, <<12592, 12687>>, <<12688, 12703>>, <<12704, 12735>>,
    <<12736, 12783>>, <<12784, 12799>>, <<12800, 13055>>, <<13056, 13311>>, <<13312, 19903>>, <<19904, 19967>>,
    <<19968, 40895>>, <<40960, 42127>>, <<42128, 42191>>, <<42240, 42527>>, <<42592, 42751>>, <<42752, 42783>>,
    <<42784, 43007>>, <<43008, 43055>>, <<43072, 43135>>, <<43136, 43231>>, <<43264, 43391>>, <<43392, 43487>>,
    <<43520, 43583>>, <<43584, 43631>>, <<43648, 43743>>, <<43776, 43871>>, <<43904, 43936>>, <<44032, 55215>>,
    <<55296, 56319>>, <<56320, 57343>>, <<57344, 63743>>, <<63744, 64255>>, <<64256, 64335>>, <<64336, 65023>>,
    <<65024, 65039>>, <<65040, 65055>>, <<65056, 65071>>, <<65072, 65103>>, <<65104, 65135>>, <<65136, 65279>>,
    <<65280, 65519>>, <<65520, 65535>>
>>

\* for item in map: if item[0] <= code <= item[1]: return item.  The first block
\* of the table that holds code, <<low, high>>; <<>> stands for None.
first_block(map, code) ==
    LET hits == {k \in DOMAIN map : map[k][1] <= code /\ code <= map[k][2]}
    IN  IF hits = {} THEN <<>>
        ELSE map[CHOOSE k \in hits : \A j \in hits : k <= j]

get_unicode_charset_entry(code) == first_block(unicode_charset_map, code)

-----------------------------------------------------------------------------
(* Conversions between byte strings, numbers and text.                     *)

\* The big-endian value of a byte string.
RECURSIVE be(_)
be(s) == IF s = <<>> THEN 0 ELSE be(Front(s)) * 256 + Last(s)

\* utils.nunpack: 1 to 4 bytes big-endian, 0 for the empty string.
nunpack(s) == be(s)

\* struct.pack('>L', v): four bytes, big-endian (v in 0..2^32-1).
pack_L(v) == << (v \div 16777216) % 256, (v \div 65536) % 256, (v \div 256) % 256, v % 256 >>

\* unicode(s, 'UTF-16BE', 'ignore'): the code points of the 16-bit units of s; a
\* trailing odd byte and ill-formed surrogates are ignored.
RECURSIVE utf16be(_)
utf16be(s) ==
    IF Len(s) < 2 THEN <<>>
    ELSE LET u == s[1] * 256 + s[2]
             rest == SubSeq(s, 3, Len(s))
         IN  IF u < 55296 \/ u > 57343 THEN <<u>> \o utf16be(rest)
             ELSE IF u <= 56319 /\ Len(rest) >= 2
                     /\ rest[1] * 256 + rest[2] >= 56320 /\ rest[1] * 256 + rest[2] <= 57343
                  THEN << 65536 + (u - 55296) * 1024 + (rest[1] * 256 + rest[2] - 56320) >>
                       \o utf16be(SubSeq(rest, 3, Len(rest)))
                  ELSE utf16be(rest)

\* struct.unpack('>%dH' % n, s): n big-endian 16-bit values; struct.error unless
\* s is exactly 2n bytes long.
unpack_H(n, s) ==
    IF Len(s) # 2 * n THEN [exc |-> "struct.error", ret |-> <<>>]
    ELSE [exc |-> "", ret |-> [i \in 1..n |-> s[2 * i - 1] * 256 + s[2 * i]]]

-----------------------------------------------------------------------------
(* CMap / FileCMap: the code -> CID trie.                                  *)

Leaf(cid) == [leaf |-> TRUE, cid |-> cid]

Dict == [leaf |-> FALSE, cid |-> 0]

EmptyTrie == << >>

HasKey(T, p) == p \in DOMAIN T

\* The paths strictly below p.
Below(T, p) == {q \in DOMAIN T : Len(q) > Len(p) /\ IsPrefix(p, q)}

\* d[c] = v for the dict at path d: the old value at d+c, with all below it, is replaced.
SetItem(T, p, v) ==
    [q \in ((DOMAIN T) \ Below(T, p)) \cup {p} |-> IF q = p THEN v ELSE T[q]]

\* The loop of add_code2cid over code[:-1], from the node at path d.  isint says
\* that d is bound to a CID (an int) and not to a dict: "c in d" then raises.
RECURSIVE add_walk(_, _, _, _)
add_walk(T, d, isint, rest) ==
    IF rest = <<>> THEN [t |-> T, d |-> d, isint |-> isint, exc |-> ""]
    ELSE IF isint THEN [t |-> T, d |-> d, isint |-> isint, exc |-> "TypeError"]
    ELSE LET p == Append(d, Head(rest))
         IN  IF HasKey(T, p) THEN add_walk(T, p, T[p].leaf, Tail(rest))
             ELSE add_walk(SetItem(T, p, Dict), p, FALSE, Tail(rest))

\* add_code2cid without the walk: the CID is stored under the last byte at the root.
add_code2cid_flat(T, code, cid) ==
    IF code = <<>> THEN [t |-> T, exc |-> "IndexError"]
    ELSE [t |-> SetItem(T, <<Last(code)>>, Leaf(cid)), exc |-> ""]

\* add_code2cid that makes room for the code: a CID met on the way is replaced
\* by a dict.
add_code2cid_overwrite(T, code, cid) ==
    IF code = <<>> THEN [t |-> T, exc |-> "IndexError"]
    ELSE [t |-> [q \in ((DOMAIN T) \ Below(T, code)) \cup {SubSeq(code, 1, k) : k \in 1..Len(code)} |->
                    IF q = code THEN Leaf(cid) ELSE IF IsPrefix(q, code) THEN Dict ELSE T[q]],
          exc |-> ""]

\* FileCMap.add_code2cid(code, cid): the trie afterwards and the exception raised.
add_code2cid(T, code, cid) ==
    LET w == add_walk(T, <<>>, FALSE, Front(code))
    IN  IF code = <<>> THEN [t |-> T, exc |-> "IndexError"]        \* code[-1]
        ELSE IF w.exc # "" THEN [t |-> w.t, exc |-> w.exc]
        ELSE IF w.isint THEN [t |-> w.t, exc |-> "TypeError"]      \* d[c] = cid on an int
        ELSE [t |-> SetItem(w.t, Append(w.d, Last(code)), Leaf(cid)), exc |-> ""]

\* The keys of the dict at path p.
KeysAt(T, p) == {c \in 0..255 : Append(p, c) \in DOMAIN T}

\* copy(dst, src) of CMap.use_cmap, for the source dict at path sp and the
\* destination dict at path dp; keys are the keys of the source still to visit.
RECURSIVE copy(_, _, _, _), copy_items(_, _, _, _, _)
copy_items(D, S, dp, sp, keys) ==
    IF keys = {} THEN D
    ELSE LET k == CHOOSE c \in keys : TRUE
             v == S[Append(sp, k)]
             D1 == IF ~v.leaf
                   THEN copy(SetItem(D, Append(dp, k), Dict), S, Append(dp, k), Append(sp, k))
                   ELSE SetItem(D, Append(dp, k), v)
         IN  copy_items(D1, S, dp, sp, keys \ {k})

copy(D, S, dp, sp) == copy_items(D, S, dp, sp, KeysAt(S, sp))

\* A variant that merges the source into the destination path by path.
use_cmap_merge(D, S) ==
    [p \in (DOMAIN D) \cup (DOMAIN S) |-> IF p \in DOMAIN S THEN S[p] ELSE D[p]]

\* CMap.use_cmap(cmap): the destination trie afterwards.
use_cmap(D, S) == copy(D, S, <<>>, <<>>)

\* decode_step that examines an unmatched byte again from the root.
decode_step_retry(T, st, c) ==
    LET p == Append(st.d, c)
    IN  IF HasKey(T, p)
        THEN IF T[p].leaf
             THEN [st EXCEPT !.d = <<>>, !.out = Append(st.out, T[p].cid)]
             ELSE [st EXCEPT !.d = p]
        ELSE IF HasKey(T, <<c>>)
             THEN IF T[<<c>>].leaf
                  THEN [st EXCEPT !.d = <<>>, !.out = Append(st.out, T[<<c>>].cid)]
                  ELSE [st EXCEPT !.d = <<c>>]
             ELSE [st EXCEPT !.d = <<>>]

\* One iteration of the loop of CMap.decode on byte c.  st.d is the path of the
\* node d is bound to, st.isint says that d is bound to a CID instead.
decode_step(T, st, c) ==
    IF st.exc # "" THEN st
    ELSE IF st.isint THEN [st EXCEPT !.exc = "TypeError"]          \* "c in d" on an int
    ELSE LET p == Append(st.d, c)
         IN  IF HasKey(T, p)
             THEN IF T[p].leaf
                  THEN [st EXCEPT !.d = <<>>, !.out = Append(st.out, T[p].cid)]
                  ELSE [st EXCEPT !.d = p]
             ELSE [st EXCEPT !.d = <<>>]

DecodeInit == [d |-> <<>>, isint |-> FALSE, out |-> <<>>, exc |-> ""]

RECURSIVE decode_from(_, _, _)
decode_from(T, st, code) ==
    IF code = <<>> THEN st ELSE decode_from(T, decode_step(T, st, Head(code)), Tail(code))

\* list(cmap.decode(code)).
decode(T, code) == decode_from(T, DecodeInit, code)

\* IdentityCMap.decode(code).
identity_decode(code) ==
    LET n == Len(code) \div 2
    IN  IF n # 0 THEN unpack_H(n, code) ELSE [exc |-> "", ret |-> <<>>]

-----------------------------------------------------------------------------
(* Calls made directly on a store: the specification of the trie.          *)

NoCall == [op |-> "", arg |-> <<>>, ret |-> <<>>, exc |-> ""]

\* pairs: the (code, cid) pairs add_code2cid has inserted, in order; used: whether
\* use_cmap was applied; n: the number of calls that changed the store.
NoHist == [pairs |-> <<>>, used |-> FALSE, n |-> 0]

MaxOps == 2

MaxCodeLen == 2

MaxDecodeLen == 3

FirstCid == 7

CodeBytes == {0, 1}

Codes == SeqsUpTo(CodeBytes, MaxCodeLen)

RECURSIVE build(_, _)
build(T, pairs) ==
    IF pairs = <<>> THEN T
    ELSE build(add_code2cid(T, Head(pairs)[1], Head(pairs)[2]).t, Tail(pairs))

\* The tries of the stores handed to use_cmap.
SourceTries ==
    { build(EmptyTrie, ps) : ps \in { << <<(<<0>>), 20>> >>,
                                      << <<(<<1, 0>>), 20>>, <<(<<1, 1>>), 21>> >>,
                                      << <<(<<0, 0>>), 20>>, <<(<<1>>), 21>> >> } }

\* cmap.add_code2cid(code, cid); an exception leaves the store as the call left it.
AddCode2Cid(code, cid) ==
    /\ hist.n < MaxOps
    /\ LET r == add_code2cid(code2cid, code, cid)
       IN  /\ code2cid' = r.t
           /\ call' = [op |-> "add_code2cid", arg |-> code, ret |-> <<>>, exc |-> r.exc]
           /\ hist' = [hist EXCEPT !.n = @ + 1,
                                   !.pairs = IF r.exc = "" THEN Append(@, <<code, cid>>) ELSE @]
    /\ UNCHANGED <<klass, attrs, cid2unichr, bfranges, parserVars, dbVars, heapVars>>

\* cmap.use_cmap(other).
UseCmap(S) ==
    /\ hist.n < MaxOps
    /\ code2cid' = use_cmap(code2cid, S)
    /\ call' = [op |-> "use_cmap", arg |-> <<>>, ret |-> <<>>, exc |-> ""]
    /\ hist' = [hist EXCEPT !.n = @ + 1, !.used = TRUE]
    /\ UNCHANGED <<klass, attrs, cid2unichr, bfranges, parserVars, dbVars, heapVars>>

\* list(cmap.decode(code)).
Decode(code) ==
    /\ LET r == decode(code2cid, code)
       IN  call' = [op |-> "decode", arg |-> code, ret |-> r.out, exc |-> r.exc]
    /\ UNCHANGED <<storeVars, parserVars, dbVars, heapVars, hist>>

InitStore ==
    /\ klass = "FileCMap"
    /\ attrs = << >>
    /\ code2cid = EmptyTrie
    /\ cid2unichr = << >>
    /\ bfranges = << >>
    /\ curstack = << >>
    /\ in_cmap = TRUE
    /\ cmap_bfrange_items = << >>
    /\ drop_bfrange_items = << >>
    /\ pc = "parse"
    /\ _cmap_cache = << >>
    /\ _umap_cache = << >>
    /\ cmap_paths = << << >>, << >> >>
    /\ heap = << >>
    /\ threads = << >>
    /\ call = NoCall
    /\ hist = NoHist

NextTrie ==
    \/ \E code \in Codes : AddCode2Cid(code, FirstCid + hist.n)
    \/ \E S \in SourceTries : UseCmap(S)
    \/ \E code \in SeqsUpTo(CodeBytes, MaxDecodeLen) : Decode(code)

SpecTrie == InitStore /\ [][NextTrie]_vars

-----------------------------------------------------------------------------
(* The identity map.                                                       *)

MaxIdLen == 4

IdBytes == {0, 1, 255}

\* IdentityCMap().decode(code).
IdentityDecode(code) ==
    /\ LET r == identity_decode(code)
       IN  call' = [op |-> "identity_decode", arg |-> code, ret |-> r.ret, exc |-> r.exc]
    /\ UNCHANGED <<storeVars, parserVars, dbVars, heapVars, hist>>

NextIdentity == \E code \in SeqsUpTo(IdBytes, MaxIdLen) : IdentityDecode(code)

SpecIdentity == InitStore /\ [][NextIdentity]_vars

-----------------------------------------------------------------------------
(* FileUnicodeMap: the CID -> Unicode table and its bfrange index.         *)
(* A bfrange entry (cid_start, cid_end, unicode_base, offset) is the tuple *)
(* <<cid_start, cid_end, unicode_base, offset>>: item[k] of the code is    *)
(* item[k + 1] here.                                                       *)

\* The objects the tokenizer hands over: byte strings, integers, lists, literal
\* names and keywords.
\* t is the type; s holds the bytes of a string, n the value of an integer, l the
\* items of a list, name the name of a literal or keyword.
StrObj(b) == [t |-> "str", s |-> b, n |-> 0, l |-> <<>>, name |-> ""]

IntObj(n) == [t |-> "int", s |-> <<>>, n |-> n, l |-> <<>>, name |-> ""]

ListObj(l) == [t |-> "list", s |-> <<>>, n |-> 0, l |-> l, name |-> ""]

LitObj(name) == [t |-> "lit", s |-> <<>>, n |-> 0, l |-> <<>>, name |-> name]

KwdObj(name) == [t |-> "kw", s |-> <<>>, n |-> 0, l |-> <<>>, name |-> name]

\* d[k] = v on a dict.
Put(U, k, v) == [x \in (DOMAIN U) \cup {k} |-> IF x = k THEN v ELSE U[x]]

\* unichr(n).
unichr(n) ==
    IF n >= 0 /\ n <= 65535 THEN [exc |-> "", ret |-> <<n>>]
    ELSE [exc |-> "ValueError", ret |-> <<>>]

\* encodingdb.name2unicode(name), for the names of glyphname2unicode_ext the
\* model uses; any other name is taken to be unknown and to hold no digits.
name2unicode(name) ==
    IF name = "oneinv" THEN [exc |-> "", ret |-> <<10122>>]
    ELSE IF name = "twoinv" THEN [exc |-> "", ret |-> <<10123>>]
    ELSE [exc |-> "KeyError", ret |-> <<>>]

\* FileUnicodeMap.add_cid2unichr(cid, code): the table afterwards and the exception.
add_cid2unichr(U, cid, code) ==
    IF code.t = "lit"
    THEN LET r == name2unicode(code.name)
         IN  IF r.exc # "" THEN [u |-> U, exc |-> r.exc] ELSE [u |-> Put(U, cid, r.ret), exc |-> ""]
    ELSE IF code.t = "str" THEN [u |-> Put(U, cid, utf16be(code.s)), exc |-> ""]
    ELSE IF code.t = "int"
    THEN LET r == unichr(code.n)
         IN  IF r.exc # "" THEN [u |-> U, exc |-> r.exc] ELSE [u |-> Put(U, cid, r.ret), exc |-> ""]
    ELSE [u |-> U, exc |-> "TypeError"]

\* is_same_charset: its return statement, on the block found (<<>> for None).
in_charset(charset, base) ==
    charset # <<>> /\ charset[1] <= base /\ base <= charset[2]

\* A variant for which every entry qualifies.
is_same_charset_any(cid, item) == item # <<>>

\* FileUnicodeMap.is_same_charset(cid, bfrangeitem).
is_same_charset(cid, item) ==
    in_charset(get_unicode_charset_entry(cid + item[4]), item[3])

\* A variant that prefers the entry after the CID when both qualify.
nearest_of_later(same_prev, same_cur, cid, prev, item) ==
    IF same_cur THEN item
    ELSE IF same_prev THEN prev
    ELSE <<>>

\* get_nearest_bfrange: the choice between the entries before and after the CID.
nearest_of(same_prev, same_cur, cid, prev, item) ==
    IF same_prev /\ same_cur
    THEN (IF cid - prev[2] < item[1] - cid THEN prev ELSE item)
    ELSE IF same_prev THEN prev
    ELSE IF same_cur THEN item
    ELSE <<>>

\* The loop of get_nearest_bfrange from position k, prev being the entry before
\* it (<<>> for None).  The result is the entry found, <<>> for None.
RECURSIVE nearest_from(_, _, _, _)
nearest_from(B, cid, k, prev) ==
    IF k > Len(B)
    THEN IF B # <<>> /\ is_same_charset(cid, B[Len(B)]) THEN B[Len(B)] ELSE <<>>
    ELSE LET item == B[k]
         IN  IF cid < item[1]
             THEN nearest_of(IF prev = <<>> THEN FALSE ELSE is_same_charset(cid, prev),
                             is_same_charset(cid, item), cid, prev, item)
             ELSE nearest_from(B, cid, k + 1, item)

\* FileUnicodeMap.get_nearest_bfrange(cid).
get_nearest_bfrange(B, cid) == nearest_from(B, cid, 1, <<>>)

\* UnicodeMap.get_unichr(cid) after the step a on the table: the table, the text
\* returned and the exception (KeyError is the undefined-CID failure).
unicodemap_get_unichr(a, cid) ==
    IF a.exc # "" THEN [u |-> a.u, ret |-> <<>>, exc |-> a.exc]
    ELSE IF cid \in DOMAIN a.u THEN [u |-> a.u, ret |-> a.u[cid], exc |-> ""]
    ELSE [u |-> a.u, ret |-> <<>>, exc |-> "KeyError"]

\* get_unichr: if item: self.add_cid2unichr(cid, cid + item[3]).
add_from_bfrange(U, cid, item) ==
    IF item # <<>> THEN add_cid2unichr(U, cid, IntObj(cid + item[4]))
    ELSE [u |-> U, exc |-> ""]

\* A variant that asks the bfrange index first, also for a CID of the table.
get_unichr_index_first(U, B, cid) ==
    unicodemap_get_unichr(add_from_bfrange(U, cid, get_nearest_bfrange(B, cid)), cid)

\* FileUnicodeMap.get_unichr(cid): the table afterwards, the text returned and the
\* exception.
get_unichr(U, B, cid) ==
    unicodemap_get_unichr(
        add_from_bfrange(U, cid, IF cid \in DOMAIN U THEN <<>> ELSE get_nearest_bfrange(B, cid)),
        cid)

-----------------------------------------------------------------------------
(* CMapParser.  The state a keyword works on is a record S of the store    *)
(* (klass, t = code2cid, u = cid2unichr, b = bfranges) and of the parser   *)
(* (stack, in_cmap, items = cmap_bfrange_items, drops = drop_bfrange_items)*)
(* with exc, the exception that ended the keyword.                         *)

\* utils.choplist(n, seq): the consecutive groups of n, an incomplete last one dropped.
choplist(n, seq) == [k \in 1..(Len(seq) \div n) |-> SubSeq(seq, n * (k - 1) + 1, n * k)]

\* self.cmap.add_code2cid(code, cid): CMapBase's does nothing.
cmap_add_code2cid(S, code, cid) ==
    IF S.exc # "" \/ S.klass # "FileCMap" THEN S
    ELSE LET r == add_code2cid(S.t, code, cid) IN [S EXCEPT !.t = r.t, !.exc = r.exc]

\* self.cmap.add_cid2unichr(cid, code): CMapBase's does nothing.
cmap_add_cid2unichr(S, cid, code) ==
    IF S.exc # "" \/ S.klass # "FileUnicodeMap" THEN S
    ELSE LET r == add_cid2unichr(S.u, cid, code) IN [S EXCEPT !.u = r.u, !.exc = r.exc]

\* verify_char_set: the branches on the block found (<<>> for None).
verify_in_charset(item, s1, e1, base) ==
    IF item # <<>>
    THEN (IF item[2] - base + s1 < e1 THEN <<s1>> ELSE <<e1>>)
    ELSE <<>>

\* CMapParser.verify_char_set(s1, e1, base): <<e2>>, or <<>> for None.
verify_char_set(s1, e1, base) ==
    verify_in_charset(get_unicode_charset_entry(base), s1, e1, base)

\* endcidrange: for i in xrange(n), from i on.
RECURSIVE cidrange_insert(_, _, _, _, _, _, _)
cidrange_insert(S, sprefix, vlen, s1, cid, n, i) ==
    IF i >= n \/ S.exc # "" THEN S
    ELSE cidrange_insert(cmap_add_code2cid(S, sprefix \o lastn(pack_L(s1 + i), vlen), cid + i),
                         sprefix, vlen, s1, cid, n, i + 1)

\* A variant that runs a reversed range from its end to its start.
cidrange_group_swapped(S, g) ==
    LET s == g[1]
        e == g[2]
        cid == g[3]
    IN  IF s.t # "str" \/ e.t # "str" \/ cid.t # "int" THEN S
        ELSE IF Len(s.s) # Len(e.s) THEN S
        ELSE IF butlastn(s.s, 4) # butlastn(e.s, 4) THEN S
        ELSE LET svar == lastn(s.s, 4)
                 evar == lastn(e.s, 4)
                 s1 == nunpack(svar)
                 e1 == nunpack(evar)
             IN  IF e1 < s1
                 THEN cidrange_insert(S, butlastn(s.s, 4), Len(svar), e1, cid.n, s1 - e1 + 1, 0)
                 ELSE cidrange_insert(S, butlastn(s.s, 4), Len(svar), s1, cid.n, e1 - s1 + 1, 0)

\* A variant whose loop stops one code short of the end of the range.
cidrange_group_short(S, g) ==
    LET s == g[1]
        e == g[2]
        cid == g[3]
    IN  IF s.t # "str" \/ e.t # "str" \/ cid.t # "int" THEN S
        ELSE IF Len(s.s) # Len(e.s) THEN S
        ELSE IF butlastn(s.s, 4) # butlastn(e.s, 4) THEN S
        ELSE LET svar == lastn(s.s, 4)
                 evar == lastn(e.s, 4)
                 s1 == nunpack(svar)
                 e1 == nunpack(evar)
             IN  cidrange_insert(S, butlastn(s.s, 4), Len(svar), s1, cid.n, e1 - s1, 0)

\* endcidrange: one group (s, e, cid).
cidrange_group(S, g) ==
    LET s == g[1]
        e == g[2]
        cid == g[3]
    IN  IF s.t # "str" \/ e.t # "str" \/ cid.t # "int" THEN S
        ELSE IF Len(s.s) # Len(e.s) THEN S
        ELSE IF butlastn(s.s, 4) # butlastn(e.s, 4) THEN S
        ELSE LET svar == lastn(s.s, 4)
                 evar == lastn(e.s, 4)
                 s1 == nunpack(svar)
                 e1 == nunpack(evar)
             IN  cidrange_insert(S, butlastn(s.s, 4), Len(svar), s1, cid.n, e1 - s1 + 1, 0)

\* endcidchar: one pair (cid, code).
cidchar_group(S, g) ==
    LET cid == g[1]
        code == g[2]
    IN  IF code.t = "str" /\ cid.t = "str" THEN cmap_add_code2cid(S, code.s, nunpack(cid.s))
        ELSE S

\* A variant of the list form that assigns the entries in reverse order.
RECURSIVE bfrange_list_reversed(_, _, _, _, _)
bfrange_list_reversed(S, s1, code, n, i) ==
    IF i >= n \/ S.exc # "" THEN S
    ELSE IF i + 1 > Len(code) THEN [S EXCEPT !.exc = "IndexError"]
    ELSE bfrange_list_reversed(cmap_add_cid2unichr(S, s1 + i, code[Len(code) - i]),
                               s1, code, n, i + 1)

\* endbfrange, list form: for i in xrange(n), from i on; code[i] raises IndexError
\* past the end of the list.
RECURSIVE bfrange_list(_, _, _, _, _)
bfrange_list(S, s1, code, n, i) ==
    IF i >= n \/ S.exc # "" THEN S
    ELSE IF i + 1 > Len(code) THEN [S EXCEPT !.exc = "IndexError"]
    ELSE bfrange_list(cmap_add_cid2unichr(S, s1 + i, code[i + 1]), s1, code, n, i + 1)

\* endbfrange, base form: for i in xrange(n), from i on.
RECURSIVE bfrange_base(_, _, _, _, _, _, _)
bfrange_base(S, s1, prefix, vlen, base, n, i) ==
    IF i >= n \/ S.exc # "" THEN S
    ELSE bfrange_base(cmap_add_cid2unichr(S, s1 + i, StrObj(prefix \o lastn(pack_L(base + i), vlen))),
                      s1, prefix, vlen, base, n, i + 1)

\* endbfrange, base form: if e2: the loop and the entry of the index, else the
\* entry of the dropped list.
bfrange_verified(S, s1, e1, prefix, vlen, base, e2) ==
    IF e2 # <<>> /\ e2[1] # 0
    THEN LET S1 == bfrange_base(S, s1, prefix, vlen, base, e2[1] - s1 + 1, 0)
         IN  IF S1.exc # "" THEN S1
             ELSE [S1 EXCEPT !.items = Append(@, <<s1, e2[1], base, base - s1>>)]
    ELSE [S EXCEPT !.drops = Append(@, <<s1, e1, base, base - s1>>)]

\* endbfrange: one group (s, e, code).
bfrange_group(S, g) ==
    LET s == g[1]
        e == g[2]
        code == g[3]
        s1 == nunpack(s.s)
        e1 == nunpack(e.s)
    IN  IF s.t # "str" \/ e.t # "str" THEN S
        ELSE IF Len(s.s) # Len(e.s) THEN S
        ELSE IF code.t = "list" THEN bfrange_list(S, s1, code.l, e1 - s1 + 1, 0)
        ELSE IF code.t # "str" THEN [S EXCEPT !.exc = "TypeError"]          \* code[-4:]
        ELSE LET var == lastn(code.s, 4)
                 base == nunpack(var)
             IN  bfrange_verified(S, s1, e1, butlastn(code.s, 4), Len(var), base,
                                  verify_char_set(s1, e1, base))

\* endbfchar: one pair (cid, code).
bfchar_group(S, g) ==
    LET cid == g[1]
        code == g[2]
    IN  IF cid.t = "str" /\ code.t = "str" THEN cmap_add_cid2unichr(S, nunpack(cid.s), code)
        ELSE S

\* The loop of a keyword over the groups of the drained stack.
RECURSIVE for_groups(_, _, _)
for_groups(S, kw, groups) ==
    IF groups = <<>> \/ S.exc # "" THEN S
    ELSE LET g == Head(groups)
             S1 == IF kw = "endcidrange" THEN cidrange_group(S, g)
                   ELSE IF kw = "endcidchar" THEN cidchar_group(S, g)
                   ELSE IF kw = "endbfrange" THEN bfrange_group(S, g)
                   ELSE bfchar_group(S, g)
         IN  for_groups(S1, kw, Tail(groups))

-----------------------------------------------------------------------------
(* CMapDB: the cache of the stores built from the resource files.          *)
(* A resource file is the dict it unpickles to, a function from the names  *)
(* of its entries (CODE2CID, IS_VERTICAL, CID2UNICHR_H, CID2UNICHR_V) to   *)
(* their values; a directory is a function from file names to files.  A    *)
(* store is a record of its class, its attrs and its tables, with id, the  *)
(* identity of the object.                                                 *)

NoStore == << >>

NoData == << >>

\* attrs = {k: v}, and d[k] = v on it.
Attr(k, v) == k :> v

\* IdentityCMap(WMode=w).
IdentityCMap(w, id) ==
    [id |-> id, klass |-> "IdentityCMap", attrs |-> Attr("WMode", w),
     code2cid |-> << >>, cid2unichr |-> << >>]

\* PyCMap(name, module): the store, or the exception of a missing entry.
PyCMap(name, module, id) ==
    IF "CODE2CID" \notin DOMAIN module \/ "IS_VERTICAL" \notin DOMAIN module
    THEN [exc |-> "AttributeError", ret |-> NoStore]
    ELSE [exc |-> "",
          ret |-> [id |-> id, klass |-> "PyCMap",
                   attrs |-> IF module["IS_VERTICAL"]
                             THEN Attr("CMapName", name) @@ Attr("WMode", 1)
                             ELSE Attr("CMapName", name),
                   code2cid |-> module["CODE2CID"], cid2unichr |-> << >>]]

\* PyUnicodeMap(name, module, vertical).
PyUnicodeMap(name, module, vertical, id) ==
    IF vertical
    THEN IF "CID2UNICHR_V" \notin DOMAIN module THEN [exc |-> "AttributeError", ret |-> NoStore]
         ELSE [exc |-> "",
               ret |-> [id |-> id, klass |-> "PyUnicodeMap",
                        attrs |-> Attr("CMapName", name) @@ Attr("WMode", 1),
                        code2cid |-> << >>, cid2unichr |-> module["CID2UNICHR_V"]]]
    ELSE IF "CID2UNICHR_H" \notin DOMAIN module THEN [exc |-> "AttributeError", ret |-> NoStore]
         ELSE [exc |-> "",
               ret |-> [id |-> id, klass |-> "PyUnicodeMap", attrs |-> Attr("CMapName", name),
                        code2cid |-> << >>, cid2unichr |-> module["CID2UNICHR_H"]]]

\* CMapDB._load_data(name): the content of the file '%s.pickle.gz' % name of the
\* first directory that holds it, or CMapNotFound.
_load_data(paths, name) ==
    LET filename == name \o ".pickle.gz"
        found == {k \in DOMAIN paths : filename \in DOMAIN paths[k]}
    IN  IF found = {} THEN [exc |-> "CMapNotFound", data |-> NoData]
        ELSE [exc |-> "", data |-> paths[CHOOSE k \in found : \A j \in found : k <= j][filename]]

\* get_cmap: klass._cmap_cache[name] = cmap = PyCMap(name, data); return cmap.
\* made is the number of objects the call created.
get_cmap_store(cache, name, c) ==
    IF c.exc # "" THEN [cache |-> cache, ret |-> NoStore, exc |-> c.exc, tried |-> TRUE, made |-> 0]
    ELSE [cache |-> Put(cache, name, c.ret), ret |-> c.ret, exc |-> "", tried |-> TRUE, made |-> 1]

\* A variant that remembers a failed load in the cache.
get_cmap_load_negative(cache, name, l, id) ==
    IF l.exc # "" THEN [cache |-> Put(cache, name, NoStore), ret |-> NoStore, exc |-> l.exc,
                        tried |-> TRUE, made |-> 0]
    ELSE get_cmap_store(cache, name, PyCMap(name, l.data, id))

\* get_cmap: data = klass._load_data(name) and on.
get_cmap_load(cache, name, l, id) ==
    IF l.exc # "" THEN [cache |-> cache, ret |-> NoStore, exc |-> l.exc, tried |-> TRUE, made |-> 0]
    ELSE get_cmap_store(cache, name, PyCMap(name, l.data, id))

\* A variant that does not look into the cache.
get_cmap_uncached(cache, paths, name, id) ==
    IF name = "Identity-H"
    THEN [cache |-> cache, ret |-> IdentityCMap(0, id), exc |-> "", tried |-> FALSE, made |-> 1]
    ELSE IF name = "Identity-V"
    THEN [cache |-> cache, ret |-> IdentityCMap(1, id), exc |-> "", tried |-> FALSE, made |-> 1]
    ELSE get_cmap_load(cache, name, _load_data(paths, name), id)

\* CMapDB.get_cmap(name): the cache afterwards, the store returned and the
\* exception; tried says whether _load_data was called.
get_cmap(cache, paths, name, id) ==
    IF name = "Identity-H"
    THEN [cache |-> cache, ret |-> IdentityCMap(0, id), exc |-> "", tried |-> FALSE, made |-> 1]
    ELSE IF name = "Identity-V"
    THEN [cache |-> cache, ret |-> IdentityCMap(1, id), exc |-> "", tried |-> FALSE, made |-> 1]
    ELSE IF name \in DOMAIN cache
    THEN [cache |-> cache, ret |-> cache[name], exc |-> "", tried |-> FALSE, made |-> 0]
    ELSE get_cmap_load(cache, name, _load_data(paths, name), id)

\* get_unicode_map: klass._umap_cache[name] = umaps = [PyUnicodeMap(name, data, v)
\* for v in (False, True)]; return umaps[vertical].
get_unicode_map_store(cache, name, vertical, h, v) ==
    IF h.exc # "" THEN [cache |-> cache, ret |-> NoStore, exc |-> h.exc, tried |-> TRUE, made |-> 0]
    ELSE IF v.exc # "" THEN [cache |-> cache, ret |-> NoStore, exc |-> v.exc, tried |-> TRUE, made |-> 1]
    ELSE [cache |-> Put(cache, name, <<h.ret, v.ret>>), ret |-> IF vertical THEN v.ret ELSE h.ret,
          exc |-> "", tried |-> TRUE, made |-> 2]

\* get_unicode_map: data = klass._load_data('to-unicode-%s' % name) and on.
get_unicode_map_load(cache, name, vertical, l, id) ==
    IF l.exc # "" THEN [cache |-> cache, ret |-> NoStore, exc |-> l.exc, tried |-> TRUE, made |-> 0]
    ELSE get_unicode_map_store(cache, name, vertical,
                               PyUnicodeMap(name, l.data, FALSE, id),
                               PyUnicodeMap(name, l.data, TRUE, id + 1))

\* CMapDB.get_unicode_map(name, vertical).
get_unicode_map(cache, paths, name, vertical, id) ==
    IF name \in DOMAIN cache
    THEN [cache |-> cache, ret |-> cache[name][IF vertical THEN 2 ELSE 1], exc |-> "",
          tried |-> FALSE, made |-> 0]
    ELSE get_unicode_map_load(cache, name, vertical, _load_data(paths, "to-unicode-" \o name), id)
DrainKeywords ==
    {"begincodespacerange", "endcodespacerange", "begincidrange", "begincidchar",
     "beginbfrange", "beginbfchar", "beginnotdefrange", "endnotdefrange"}

\* psparser.literal_name(x) resolves the name of a literal.
literal_name(x) ==
    IF x.t = "lit" THEN [exc |-> "", ret |-> x.name] ELSE [exc |-> "PSSyntaxError", ret |-> ""]

\* The value of an operand: the number of an integer, the object otherwise.
value_of(v) == IF v.t = "int" THEN v.n ELSE v

\* def: ((_, k), (_, v)) = self.pop(2); self.cmap.set_attr(literal_name(k), v).
\* A malformed pop is swallowed.
do_def(S) ==
    IF Len(S.stack) < 2 THEN [S EXCEPT !.stack = <<>>]
    ELSE LET k == S.stack[Len(S.stack) - 1]
             v == S.stack[Len(S.stack)]
             popped == [S EXCEPT !.stack = butlastn(@, 2)]
         IN  IF literal_name(k).exc # "" THEN popped
             ELSE [popped EXCEPT !.attrs = Put(@, literal_name(k).ret, value_of(v))]

\* self.cmap.use_cmap(cmap): CMapBase's does nothing; CMap's asserts that cmap is
\* a CMap and copies its trie.
cmap_use_cmap(S, cmap) ==
    IF S.klass # "FileCMap" THEN S
    ELSE IF cmap.klass \notin {"PyCMap", "FileCMap"} THEN [S EXCEPT !.exc = "AssertionError"]
    ELSE [S EXCEPT !.t = use_cmap(@, cmap.code2cid)]

\* usecmap, once CMapDB.get_cmap has returned r: CMapNotFound is swallowed.
use_resolved(S, r) ==
    IF r.exc = "CMapNotFound" THEN S
    ELSE IF r.exc # "" THEN [S EXCEPT !.exc = r.exc]
    ELSE cmap_use_cmap([S EXCEPT !.cache = r.cache], r.ret)

\* usecmap: ((_, cmapname),) = self.pop(1);
\* self.cmap.use_cmap(CMapDB.get_cmap(literal_name(cmapname))).
do_usecmap(S) ==
    IF S.stack = <<>> THEN S
    ELSE LET cmapname == literal_name(Last(S.stack))
             popped == [S EXCEPT !.stack = Front(@)]
         IN  IF cmapname.exc # "" THEN popped
             ELSE use_resolved(popped, get_cmap(S.cache, S.paths, cmapname.ret,
                                                Cardinality(DOMAIN S.cache)))

\* do_keyword without the test of _in_cmap.
do_keyword_ungated(S, kw) ==
    IF kw = "begincmap" THEN [S EXCEPT !.in_cmap = TRUE, !.stack = <<>>]
    ELSE IF kw = "endcmap" THEN [S EXCEPT !.in_cmap = FALSE]
    ELSE IF kw = "def" THEN do_def(S)
    ELSE IF kw = "usecmap" THEN do_usecmap(S)
    ELSE IF kw \in DrainKeywords THEN [S EXCEPT !.stack = <<>>]
    ELSE IF kw \in {"endcidrange", "endbfrange"}
    THEN for_groups([S EXCEPT !.stack = <<>>], kw, choplist(3, S.stack))
    ELSE IF kw \in {"endcidchar", "endbfchar"}
    THEN for_groups([S EXCEPT !.stack = <<>>], kw, choplist(2, S.stack))
    ELSE [S EXCEPT !.stack = Append(@, KwdObj(kw))]

\* CMapParser.do_keyword(pos, token) for the keyword named kw: begincmap, endcmap,
\* def, usecmap, the keywords that only drain the stack, the four end keywords of
\* the mapping operations, and any keyword the method does not know, which it
\* pushes.
do_keyword(S, kw) ==
    IF kw = "begincmap" THEN [S EXCEPT !.in_cmap = TRUE, !.stack = <<>>]
    ELSE IF kw = "endcmap" THEN [S EXCEPT !.in_cmap = FALSE]
    ELSE IF ~S.in_cmap THEN S
    ELSE IF kw = "def" THEN do_def(S)
    ELSE IF kw = "usecmap" THEN do_usecmap(S)
    ELSE IF kw \in DrainKeywords THEN [S EXCEPT !.stack = <<>>]
    ELSE IF kw \in {"endcidrange", "endbfrange"}
    THEN for_groups([S EXCEPT !.stack = <<>>], kw, choplist(3, S.stack))
    ELSE IF kw \in {"endcidchar", "endbfchar"}
    THEN for_groups([S EXCEPT !.stack = <<>>], kw, choplist(2, S.stack))
    ELSE [S EXCEPT !.stack = Append(@, KwdObj(kw))]

\* sorted(bfranges, key=lambda x: x[0]): stable, by cid_start.
RECURSIVE sorted(_)
sorted(seq) ==
    IF seq = <<>> THEN <<>>
    ELSE LET rest == sorted(Front(seq))
             x == Last(seq)
             k == Cardinality({i \in DOMAIN rest : rest[i][1] <= x[1]})
         IN  SubSeq(rest, 1, k) \o <<x>> \o SubSeq(rest, k + 1, Len(rest))

\* fill_cmap_by_ranges: for i in range(prev[1]+1, item[0]), from i on.
RECURSIVE back_fill(_, _, _, _)
back_fill(S, i, stop, off) ==
    IF i >= stop \/ S.exc # "" THEN S
    ELSE back_fill(cmap_add_cid2unichr(S, i, IntObj(i + off)), i + 1, stop, off)

\* The loop of fill_cmap_by_ranges over the sorted entries; L holds the locals
\* result_bfranges, last_merged and prev (<<>> for None) and the state S.
RECURSIVE fill_loop(_, _)
fill_loop(L, items) ==
    IF items = <<>> \/ L.S.exc # "" THEN L
    ELSE LET item == Head(items)
             L1 == IF L.prev # <<>>
                   THEN IF item[3] - item[1] = L.prev[3] - L.prev[1]
                        THEN LET off == item[3] - item[1]
                             IN  [L EXCEPT !.S = back_fill(L.S, L.prev[2] + 1, item[1], off),
                                           !.last = <<L.last[1], item[2], L.last[3], off>>]
                        ELSE [L EXCEPT !.res = Append(@, L.last), !.last = item]
                   ELSE [L EXCEPT !.last = item]
         IN  fill_loop([L1 EXCEPT !.prev = item], Tail(items))

\* CMapParser.fill_cmap_by_ranges(bfranges, True): the state afterwards (S) and the
\* list returned (res).
fill_cmap_by_ranges(S, ranges) ==
    LET L == fill_loop([S |-> S, res |-> <<>>, last |-> <<>>, prev |-> <<>>], sorted(ranges))
    IN  [S |-> L.S, res |-> IF L.last # <<>> THEN Append(L.res, L.last) ELSE L.res]

\* CMapParser.is_subset_of_ranges(ranges, range): whether an entry is returned.
is_subset_of_ranges(ranges, range) ==
    LET code_s == range[3]
        code_e == range[3] + range[2] - range[1]
    IN  \E k \in DOMAIN ranges :
            /\ ranges[k] # range
            /\ code_s >= ranges[k][3]
            /\ code_e <= ranges[k][3] + ranges[k][2] - ranges[k][1]

\* CMapParser.fixup_cmaps().
fixup_cmaps(S) ==
    IF S.items = <<>> THEN S
    ELSE LET m == fill_cmap_by_ranges(S, S.items)
             merged_bfranges == m.res
             keep(item) == ~is_subset_of_ranges(merged_bfranges, item)
             results_bfranges == SelectSeq(merged_bfranges, keep)
             f == IF Len(results_bfranges) # Len(merged_bfranges)
                  THEN fill_cmap_by_ranges(m.S, results_bfranges)
                  ELSE [S |-> m.S, res |-> results_bfranges]
         IN  IF m.S.exc # "" THEN m.S
             ELSE IF Len(merged_bfranges) = Len(S.items) THEN m.S
             ELSE IF f.S.exc # "" THEN f.S
             ELSE [f.S EXCEPT !.b = sorted(f.res), !.items = <<>>]

-----------------------------------------------------------------------------
(* The interpreter at work.                                                *)

\* The store and the parser as a record, and back.
Cur == [klass |-> klass, attrs |-> attrs, t |-> code2cid, u |-> cid2unichr, b |-> bfranges,
        stack |-> curstack, in_cmap |-> in_cmap, items |-> cmap_bfrange_items,
        drops |-> drop_bfrange_items, cache |-> _cmap_cache, paths |-> cmap_paths, exc |-> ""]

Becomes(S) ==
    /\ klass' = S.klass
    /\ attrs' = S.attrs
    /\ code2cid' = S.t
    /\ cid2unichr' = S.u
    /\ bfranges' = S.b
    /\ curstack' = S.stack
    /\ in_cmap' = S.in_cmap
    /\ cmap_bfrange_items' = S.items
    /\ drop_bfrange_items' = S.drops
    /\ _cmap_cache' = S.cache

\* n: keywords met; toks: objects pushed; runs: parsers run
\* on the store; gets: get_unichr calls; memo: the texts get_unichr synthesized,
\* by CID; t0, u0: code2cid and cid2unichr before the last call.
ParserHist == [n |-> 0, toks |-> 0, runs |-> 1, gets |-> 0, memo |-> <<>>, t0 |-> <<>>, u0 |-> <<>>]

\* A parser CMapParser(cmap, fp) on a new store of class k, the tokenizer having
\* pushed the objects of stack.
InitWith(k, stack) ==
    /\ klass = k
    /\ attrs = << >>
    /\ code2cid = EmptyTrie
    /\ cid2unichr = << >>
    /\ bfranges = << >>
    /\ curstack = stack
    /\ in_cmap = TRUE
    /\ cmap_bfrange_items = << >>
    /\ drop_bfrange_items = << >>
    /\ pc = "parse"
    /\ _cmap_cache = << >>
    /\ _umap_cache = << >>
    /\ cmap_paths = << << >>, << >> >>
    /\ heap = << >>
    /\ threads = << >>
    /\ call = NoCall
    /\ hist = ParserHist

InitParser(k) == InitWith(k, << >>)

MaxKw == 2

MaxToks == 12

\* nextobject up to the next keyword: the tokenizer pushes the objects objs, then
\* do_keyword runs on the keyword kw.  An exception leaves run().
Token(objs, kw) ==
    /\ pc = "parse"
    /\ hist.n < MaxKw
    /\ hist.toks + Len(objs) <= MaxToks
    /\ \E S1 \in {do_keyword([Cur EXCEPT !.stack = curstack \o objs], kw)} :
           /\ Becomes(S1)
           /\ pc' = IF S1.exc # "" THEN "raised" ELSE pc
           /\ call' = [op |-> "do_keyword", arg |-> <<kw, curstack \o objs>>, ret |-> <<>>,
                       exc |-> S1.exc]
    /\ hist' = [hist EXCEPT !.n = @ + 1, !.toks = @ + Len(objs), !.t0 = code2cid, !.u0 = cid2unichr]
    /\ UNCHANGED <<_umap_cache, cmap_paths, heapVars>>

\* The end of the input: run() goes on to fixup_cmaps and returns.
EndOfInput ==
    /\ pc = "parse"
    /\ \E S1 \in {fixup_cmaps(Cur)} :
           /\ Becomes(S1)
           /\ pc' = IF S1.exc # "" THEN "raised" ELSE "done"
           /\ call' = [op |-> "run", arg |-> cmap_bfrange_items, ret |-> <<>>, exc |-> S1.exc]
    /\ hist' = [hist EXCEPT !.t0 = code2cid, !.u0 = cid2unichr]
    /\ UNCHANGED <<_umap_cache, cmap_paths, heapVars>>

MaxGets == 2

\* cmap.get_unichr(cid) on the store a run has built.
GetUnichr(cid) ==
    /\ pc # "parse"
    /\ klass = "FileUnicodeMap"
    /\ hist.gets < MaxGets
    /\ \E r \in {get_unichr(cid2unichr, bfranges, cid)} :
           /\ cid2unichr' = r.u
           /\ call' = [op |-> "get_unichr", arg |-> cid, ret |-> r.ret, exc |-> r.exc]
           /\ hist' = [hist EXCEPT !.gets = @ + 1, !.t0 = code2cid, !.u0 = cid2unichr,
                                   !.memo = IF cid \notin DOMAIN cid2unichr /\ r.exc = ""
                                            THEN Put(@, cid, r.ret) ELSE @]
    /\ UNCHANGED <<klass, attrs, code2cid, bfranges, parserVars, dbVars, heapVars>>

MaxRuns == 2

\* CMapParser(cmap, fp) on the store of a finished run: a new parser, with an empty
\* stack and empty scratch lists, for another stream.
NewParser ==
    /\ pc # "parse"
    /\ hist.runs < MaxRuns
    /\ hist.n < MaxKw
    /\ curstack' = << >>
    /\ in_cmap' = TRUE
    /\ cmap_bfrange_items' = << >>
    /\ drop_bfrange_items' = << >>
    /\ pc' = "parse"
    /\ call' = [op |-> "CMapParser", arg |-> <<>>, ret |-> <<>>, exc |-> ""]
    /\ hist' = [hist EXCEPT !.runs = @ + 1, !.t0 = code2cid, !.u0 = cid2unichr]
    /\ UNCHANGED <<storeVars, dbVars, heapVars>>

\* The operand groups of a stream of cidrange and cidchar operations: codes that
\* are empty, of one and two bytes, and of five bytes (a one-byte prefix before
\* the last four), ranges that are reversed, of unequal length and of unequal
\* prefix, and CIDs written as integers and as strings.
CidrangeGroups ==
    { <<StrObj(<<>>), StrObj(<<>>), IntObj(5)>>,
      <<StrObj(<<0>>), StrObj(<<1>>), IntObj(5)>>,
      <<StrObj(<<0>>), StrObj(<<1>>), IntObj(9)>>,
      <<StrObj(<<0>>), StrObj(<<1>>), StrObj(<<5>>)>>,
      <<StrObj(<<1>>), StrObj(<<0>>), IntObj(5)>>,
      <<StrObj(<<0>>), StrObj(<<0, 1>>), IntObj(5)>>,
      <<StrObj(<<0, 0>>), StrObj(<<0, 1>>), IntObj(5)>>,
      <<StrObj(<<2, 0, 0, 0, 0>>), StrObj(<<2, 0, 0, 0, 1>>), IntObj(5)>>,
      <<StrObj(<<2, 0, 0, 0, 0>>), StrObj(<<3, 0, 0, 0, 1>>), IntObj(5)>> }

CidcharGroups ==
    { <<StrObj(<<1>>), IntObj(5)>>, <<StrObj(<<>>), IntObj(5)>>,
      <<StrObj(<<6>>), StrObj(<<0, 1>>)>>, <<StrObj(<<6>>), StrObj(<<>>)>> }

MaxGroups == 2

\* The streams of at most MaxGroups groups.
Streams(G) == { Concat(gs) : gs \in SeqsUpTo(G, MaxGroups) }

Next ==
    \/ \E objs \in Streams(CidrangeGroups) : Token(objs, "endcidrange")
    \/ \E objs \in Streams(CidcharGroups) : Token(objs, "endcidchar")
    \/ EndOfInput

Init == InitParser("FileCMap")

Spec == Init /\ [][Next]_vars
-----------------------------------------------------------------------------
(* A FileUnicodeMap filled from streams of bfrange and bfchar operations.  *)

\* The operand groups of endbfrange: list forms (one with an entry in no Unicode
\* block), and base forms: two pairs of single-CID ranges
\* of equal offset with a gap between them.
BfrangeList ==
    << <<StrObj(<<0>>), StrObj(<<1>>), ListObj(<<StrObj(<<0, 65>>), StrObj(<<0, 66>>)>>)>>,
       <<StrObj(<<2>>), StrObj(<<2>>), ListObj(<<StrObj(<<7, 192>>)>>)>>,
       <<StrObj(<<1>>), StrObj(<<1>>), StrObj(<<0, 33>>)>>,
       <<StrObj(<<3>>), StrObj(<<3>>), StrObj(<<0, 35>>)>>,
       <<StrObj(<<1>>), StrObj(<<1>>), StrObj(<<0, 65>>)>>,
       <<StrObj(<<3>>), StrObj(<<3>>), StrObj(<<0, 67>>)>> >>

\* The stream of the groups of list at the positions I, in the order of the list,
\* from position k on.
RECURSIVE SubStream(_, _, _)
SubStream(list, I, k) ==
    IF k > Len(list) THEN <<>>
    ELSE (IF k \in I THEN list[k] ELSE <<>>) \o SubStream(list, I, k + 1)

\* The streams of at most MaxGroups groups of BfrangeList.
BfrangeStreams ==
    { SubStream(BfrangeList, I, 1) :
          I \in {J \in SUBSET (1..Len(BfrangeList)) : Cardinality(J) <= MaxGroups} }

BfcharGroups == { <<StrObj(<<5>>), StrObj(<<0, 88>>)>> }

\* The CIDs looked up, which no group assigns: one near the entries of the index,
\* one so far from them that its scalar leaves their Unicode block.
BfCids == {5, 200}

NextBf ==
    \/ \E objs \in BfrangeStreams : Token(objs, "endbfrange")
    \/ \E objs \in Streams(BfcharGroups) : Token(objs, "endbfchar")
    \/ EndOfInput
    \/ \E cid \in BfCids : GetUnichr(cid)
    \/ NewParser

InitBf == InitParser("FileUnicodeMap")

SpecBf == InitBf /\ [][NextBf]_vars
-----------------------------------------------------------------------------
(* The fixup pass on the accepted entries of one stream of base-form       *)
(* bfrange groups.                                                         *)

\* Base-form groups (start CID, end CID, base scalar), all in the block
\* 0x00..0x7F: two ranges of equal offset with a gap, as in the documentation of
\* the pass; four ranges of which the middle two merge and the outer two have
\* another, common offset; five ranges of three offsets that nest and overlap; two
\* ranges whose base is near the top of the block, from CID 1 and from CID 0;
\* the single CID 0.
FixTriples ==
    << <<0, 4, 100>>, <<10, 14, 110>>,
       <<1, 1, 98>>, <<2, 2, 102>>, <<4, 4, 104>>, <<5, 8, 102>>,
       <<2, 4, 68>>, <<6, 8, 70>>, <<3, 4, 67>>, <<3, 4, 68>>, <<5, 7, 69>>,
       <<1, 3, 126>>, <<0, 2, 126>>, <<0, 0, 65>> >>

FixGroup(g) == <<StrObj(<<g[1]>>), StrObj(<<g[2]>>), StrObj(<<0, g[3]>>)>>

FixList == [k \in DOMAIN FixTriples |-> FixGroup(FixTriples[k])]

InitFix == \E I \in SUBSET (1..Len(FixList)) : InitWith("FileUnicodeMap", SubStream(FixList, I, 1))

NextFix ==
    \/ Token(<<>>, "endbfrange")
    \/ EndOfInput

SpecFix == InitFix /\ [][NextFix]_vars
-----------------------------------------------------------------------------
(* Keywords met with arbitrary operands on the stack.                      *)

\* Operands of every type: byte strings, an integer, a list of one string and a
\* literal name.
AnyObjs ==
    { StrObj(<<0>>), StrObj(<<1>>), IntObj(5), ListObj(<<StrObj(<<0, 65>>)>>), LitObj("oneinv") }

MaxStack == 3

\* The keywords of do_keyword that the streams hold, and one it does not know.
AnyKeywords ==
    { "begincmap", "endcmap", "begincidrange", "endcidrange", "begincidchar", "endcidchar",
      "beginbfrange", "endbfrange", "beginbfchar", "endbfchar", "findresource" }

InitAny ==
    \E k \in {"FileCMap", "FileUnicodeMap"}, stack \in SeqsUpTo(AnyObjs, MaxStack) :
        InitWith(k, stack)

NextAny ==
    \/ \E kw \in AnyKeywords : Token(<< >>, kw)
    \/ EndOfInput

SpecAny == InitAny /\ [][NextAny]_vars
-----------------------------------------------------------------------------
(* Lookups in a FileUnicodeMap whose bfrange index a run has installed.    *)

\* Entries (cid_start, cid_end, unicode_base, offset) in cid_start order: two
\* with a base in 0x00..0x7F and the offsets 32 and 64, one with the base 0x7E
\* at the top of that block, one with a base in 0x80..0xFF.
NearList ==
    << << <<2, 4, 34, 32>> >>, << <<6, 6, 126, 120>> >>,
       << <<10, 12, 74, 64>> >>, << <<20, 22, 130, 110>> >> >>

\* The CIDs looked up: before, between and after the entries, and far from them.
NearCids == {0, 5, 7, 8, 9, 15, 30, 100}

\* cmap.get_nearest_bfrange(cid).
GetNearestBfrange(cid) ==
    /\ pc # "parse"
    /\ klass = "FileUnicodeMap"
    /\ call' = [op |-> "get_nearest_bfrange", arg |-> cid,
                ret |-> get_nearest_bfrange(bfranges, cid), exc |-> ""]
    /\ UNCHANGED <<storeVars, parserVars, dbVars, heapVars, hist>>

InitNear ==
    \E I \in SUBSET (1..Len(NearList)) :
        /\ klass = "FileUnicodeMap"
        /\ attrs = << >>
        /\ code2cid = EmptyTrie
        /\ cid2unichr = << >>
        /\ bfranges = SubStream(NearList, I, 1)
        /\ curstack = << >>
        /\ in_cmap = TRUE
        /\ cmap_bfrange_items = << >>
        /\ drop_bfrange_items = << >>
        /\ pc = "done"
        /\ _cmap_cache = << >>
        /\ _umap_cache = << >>
        /\ cmap_paths = << << >>, << >> >>
        /\ heap = << >>
        /\ threads = << >>
        /\ call = NoCall
        /\ hist = ParserHist

NextNear ==
    \/ \E cid \in NearCids : GetNearestBfrange(cid)
    \/ \E cid \in NearCids : GetUnichr(cid)

SpecNear == InitNear /\ [][NextNear]_vars
-----------------------------------------------------------------------------
(* Calls on CMapDB, with the resource directories changing in between.     *)

\* calls, installs: the calls and the installations made; nobj: the objects
\* created; c0, u0: the two caches before the last call; tried: whether the last
\* call called _load_data; loads, uloads: how often _load_data returned a file to
\* get_cmap and to get_unicode_map, by name; first, ufirst: the store the first
\* successful call returned, by name and by <<name, vertical>>; notfound: how
\* often get_cmap failed with CMapNotFound, by name.
DbHist ==
    [calls |-> 0, installs |-> 0, nobj |-> 0, c0 |-> << >>, u0 |-> << >>, tried |-> FALSE,
     loads |-> << >>, uloads |-> << >>, first |-> << >>, ufirst |-> << >>, notfound |-> << >>]

\* d[k] += 1 on a counter that starts at 0.
Count(d, k) == Put(d, k, IF k \in DOMAIN d THEN d[k] + 1 ELSE 1)

\* d.setdefault(k, v).
SetDefault(d, k, v) == IF k \in DOMAIN d THEN d ELSE Put(d, k, v)

MaxCalls == 3

MaxInstalls == 2

\* The names asked for: the reserved names, the name of a CMap resource, the
\* name of the to-unicode resource of that CMap, and a name of no resource.
CMapNames == {"Identity-H", "Identity-V", "A", "to-unicode-A", "NoSuchCMap-X"}

UnicodeMapNames == {"A", "NoSuchCMap-X"}

\* The resource files that are installed: two versions of the CMap A (one of
\* them vertical) and its to-unicode file.
ResourceFiles ==
    { <<"A.pickle.gz", Attr("CODE2CID", build(EmptyTrie, << <<(<<0>>), 20>> >>))
                         @@ Attr("IS_VERTICAL", FALSE)>>,
      <<"A.pickle.gz", Attr("CODE2CID", build(EmptyTrie, << <<(<<1, 0>>), 21>> >>))
                         @@ Attr("IS_VERTICAL", TRUE)>>,
      <<"to-unicode-A.pickle.gz", Attr("CID2UNICHR_H", Put(<< >>, 20, <<65>>))
                                    @@ Attr("CID2UNICHR_V", Put(<< >>, 20, <<66>>))>> }

\* CMapDB.get_cmap(name).
GetCmap(name) ==
    /\ hist.calls < MaxCalls
    /\ \E r \in {get_cmap(_cmap_cache, cmap_paths, name, hist.nobj)} :
           /\ _cmap_cache' = r.cache
           /\ call' = [op |-> "get_cmap", arg |-> name, ret |-> r.ret, exc |-> r.exc]
           /\ hist' = [hist EXCEPT
                  !.calls = @ + 1, !.nobj = @ + r.made, !.c0 = _cmap_cache, !.u0 = _umap_cache,
                  !.tried = r.tried,
                  !.loads = IF r.tried /\ r.exc # "CMapNotFound" THEN Count(@, name) ELSE @,
                  !.first = IF r.exc = "" THEN SetDefault(@, name, r.ret) ELSE @,
                  !.notfound = IF r.exc = "CMapNotFound" THEN Count(@, name) ELSE @]
    /\ UNCHANGED <<storeVars, parserVars, _umap_cache, cmap_paths, heapVars>>

\* CMapDB.get_unicode_map(name, vertical).
GetUnicodeMap(name, vertical) ==
    /\ hist.calls < MaxCalls
    /\ \E r \in {get_unicode_map(_umap_cache, cmap_paths, name, vertical, hist.nobj)} :
           /\ _umap_cache' = r.cache
           /\ call' = [op |-> "get_unicode_map", arg |-> <<name, vertical>>, ret |-> r.ret,
                       exc |-> r.exc]
           /\ hist' = [hist EXCEPT
                  !.calls = @ + 1, !.nobj = @ + r.made, !.c0 = _cmap_cache, !.u0 = _umap_cache,
                  !.tried = r.tried,
                  !.uloads = IF r.tried /\ r.exc # "CMapNotFound" THEN Count(@, name) ELSE @,
                  !.ufirst = IF r.exc = "" THEN SetDefault(@, <<name, vertical>>, r.ret) ELSE @]
    /\ UNCHANGED <<storeVars, parserVars, _cmap_cache, cmap_paths, heapVars>>

\* A resource file is installed in, or replaced in, one of the directories
\* (the directory of CMAP_PATH or the cmap directory of the package).
Install(k, file) ==
    /\ hist.installs < MaxInstalls
    /\ cmap_paths' = [cmap_paths EXCEPT ![k] = Put(@, file[1], file[2])]
    /\ hist' = [hist EXCEPT !.installs = @ + 1]
    /\ UNCHANGED <<storeVars, parserVars, _cmap_cache, _umap_cache, heapVars, call>>

InitDb ==
    /\ klass = "FileCMap"
    /\ attrs = << >>
    /\ code2cid = EmptyTrie
    /\ cid2unichr = << >>
    /\ bfranges = << >>
    /\ curstack = << >>
    /\ in_cmap = TRUE
    /\ cmap_bfrange_items = << >>
    /\ drop_bfrange_items = << >>
    /\ pc = "parse"
    /\ _cmap_cache = << >>
    /\ _umap_cache = << >>
    /\ cmap_paths = << << >>, << >> >>
    /\ heap = << >>
    /\ threads = << >>
    /\ call = NoCall
    /\ hist = DbHist

NextDb ==
    \/ \E name \in CMapNames : GetCmap(name)
    \/ \E name \in UnicodeMapNames, vertical \in BOOLEAN : GetUnicodeMap(name, vertical)
    \/ \E k \in 1..2, file \in ResourceFiles : Install(k, file)

SpecDb == InitDb /\ [][NextDb]_vars
-----------------------------------------------------------------------------
(* Streams of whole statements, with begincmap and endcmap among them.     *)

\* The resource file of the CMap A.
GateModule ==
    Attr("CODE2CID", build(EmptyTrie, << <<(<<0>>), 20>> >>)) @@ Attr("IS_VERTICAL", FALSE)

\* The statements of the streams: the operands the tokenizer pushes and the
\* keyword that follows them.
GateStatements ==
    { << << >>, "begincmap" >>,
      << << >>, "endcmap" >>,
      << <<LitObj("WMode"), IntObj(1)>>, "def" >>,
      << <<LitObj("A")>>, "usecmap" >>,
      << <<LitObj("NoSuchCMap-X")>>, "usecmap" >>,
      << << >>, "begincidrange" >>,
      << <<StrObj(<<0>>), StrObj(<<1>>), IntObj(5)>>, "endcidrange" >>,
      << <<StrObj(<<6>>), StrObj(<<0, 1>>)>>, "endcidchar" >>,
      << <<StrObj(<<1>>), StrObj(<<1>>), StrObj(<<0, 33>>)>>, "endbfrange" >>,
      << <<StrObj(<<2>>), StrObj(<<2>>), StrObj(<<7, 192>>)>>, "endbfrange" >>,
      << <<StrObj(<<5>>), StrObj(<<0, 88>>)>>, "endbfchar" >>,
      << <<IntObj(3)>>, "findresource" >> }

InitGate ==
    \E k \in {"FileCMap", "FileUnicodeMap"} :
        /\ klass = k
        /\ attrs = << >>
        /\ code2cid = EmptyTrie
        /\ cid2unichr = << >>
        /\ bfranges = << >>
        /\ curstack = << >>
        /\ in_cmap = TRUE
        /\ cmap_bfrange_items = << >>
        /\ drop_bfrange_items = << >>
        /\ pc = "parse"
        /\ _cmap_cache = << >>
        /\ _umap_cache = << >>
        /\ cmap_paths = << Put(<< >>, "A.pickle.gz", GateModule), << >> >>
        /\ heap = << >>
        /\ threads = << >>
        /\ call = NoCall
        /\ hist = ParserHist

NextGate ==
    \/ \E st \in GateStatements : Token(st[1], st[2])
    \/ EndOfInput

SpecGate == InitGate /\ [][NextGate]_vars
-----------------------------------------------------------------------------
(* Dicts and stores as objects: what is shared when a reference is copied. *)
(* heap maps the identity of an object (0, 1, ...) to its cell.  The cell  *)
(* of a dict holds its items in d: a value is an int (a CID) or the        *)
(* identity of another dict.  The cell of a store holds its class, its     *)
(* attrs, the identity of its code2cid dict and its cid2unichr table.      *)

\* A value of a dict: the int cid.
Cid(cid) == [leaf |-> TRUE, v |-> cid]

\* A value of a dict: the dict of identity n.
Ref(n) == [leaf |-> FALSE, v |-> n]

\* No object: None, or an attribute that is not set yet.
NoRef == -1

DictCell(items) ==
    [kind |-> "dict", d |-> items, klass |-> "", attrs |-> << >>, code2cid |-> NoRef,
     cid2unichr |-> << >>]

StoreCell(k, a, c, u) ==
    [kind |-> "store", d |-> << >>, klass |-> k, attrs |-> a, code2cid |-> c, cid2unichr |-> u]

\* The identity of the next object created.
NewId(H) == Cardinality(DOMAIN H)

\* d[k] = v on the dict of identity d.
h_setitem(H, d, k, v) == [H EXCEPT ![d].d = Put(@, k, v)]

\* t = {}; d[c] = t.
h_newdict(H, d, c) == Put(h_setitem(H, d, c, Ref(NewId(H))), NewId(H), DictCell(<< >>))

\* The loop of FileCMap.add_code2cid over code[:-1], d being bound to the dict of
\* identity d or, when isint, to an int: "c in d" then raises.
RECURSIVE h_add_walk(_, _, _, _)
h_add_walk(H, d, isint, rest) ==
    IF rest = <<>> THEN [h |-> H, d |-> d, isint |-> isint, exc |-> ""]
    ELSE IF isint THEN [h |-> H, d |-> d, isint |-> isint, exc |-> "TypeError"]
    ELSE IF Head(rest) \in DOMAIN H[d].d
    THEN h_add_walk(H, H[d].d[Head(rest)].v, H[d].d[Head(rest)].leaf, Tail(rest))
    ELSE h_add_walk(h_newdict(H, d, Head(rest)), NewId(H), FALSE, Tail(rest))

\* add_code2cid after the loop: c = ord(code[-1]); d[c] = cid.
h_add_last(w, c, cid) ==
    IF w.exc # "" THEN [h |-> w.h, exc |-> w.exc]
    ELSE IF w.isint THEN [h |-> w.h, exc |-> "TypeError"]
    ELSE [h |-> h_setitem(w.h, w.d, c, Cid(cid)), exc |-> ""]

\* FileCMap.add_code2cid(code, cid) on the store whose code2cid is the dict root.
h_add_code2cid(H, root, code, cid) ==
    IF code = <<>> THEN [h |-> H, exc |-> "IndexError"]
    ELSE h_add_last(h_add_walk(H, root, FALSE, Front(code)), Last(code), cid)

\* copy(dst, src) that stores the dicts of the source themselves: dst[k] = v.
RECURSIVE h_copy_shared(_, _, _, _)
h_copy_shared(H, dst, src, keys) ==
    IF keys = {} THEN H
    ELSE LET k == CHOOSE c \in keys : TRUE
         IN  h_copy_shared(h_setitem(H, dst, k, H[src].d[k]), dst, src, keys \ {k})

\* copy(dst, src) of CMap.use_cmap on the dicts dst and src; keys are the keys of
\* src still to visit.
RECURSIVE h_copy(_, _, _, _)
h_copy(H, dst, src, keys) ==
    IF keys = {} THEN H
    ELSE LET k == CHOOSE c \in keys : TRUE
             v == H[src].d[k]
         IN  IF ~v.leaf
             THEN h_copy(h_copy(h_newdict(H, dst, k), NewId(H), v.v, DOMAIN H[v.v].d),
                         dst, src, keys \ {k})
             ELSE h_copy(h_setitem(H, dst, k, v), dst, src, keys \ {k})

\* CMap.use_cmap(cmap) on the dicts of the two stores.
h_use_cmap(H, dst, src) == h_copy(H, dst, src, DOMAIN H[src].d)

\* The trie that the dict d holds, as a function of its paths.
RECURSIVE h_paths(_, _, _)
h_paths(H, d, p) ==
    UNION { IF H[d].d[c].leaf THEN {Append(p, c)}
            ELSE {Append(p, c)} \cup h_paths(H, H[d].d[c].v, Append(p, c)) : c \in DOMAIN H[d].d }

RECURSIVE h_node(_, _, _)
h_node(H, d, p) ==
    LET v == H[d].d[Head(p)]
    IN  IF Len(p) = 1 THEN (IF v.leaf THEN Leaf(v.v) ELSE Dict) ELSE h_node(H, v.v, Tail(p))

trie_of(H, d) == [p \in h_paths(H, d, <<>>) |-> h_node(H, d, p)]

\* The dicts reached from the dict d, d among them.
RECURSIVE Reach(_, _)
Reach(H, d) ==
    {d} \cup UNION { IF H[d].d[c].leaf THEN {} ELSE Reach(H, H[d].d[c].v) : c \in DOMAIN H[d].d }

\* pickle.loads of a CODE2CID trie T: new dicts that hold it.
RECURSIVE h_fill(_, _, _, _)
h_fill(H, root, T, leaves) ==
    IF leaves = {} THEN H
    ELSE LET p == CHOOSE q \in leaves : TRUE
         IN  h_fill(h_add_code2cid(H, root, p, T[p].cid).h, root, T, leaves \ {p})

h_loads(H, T) ==
    [h |-> h_fill(Put(H, NewId(H), DictCell(<< >>)), NewId(H), T, {p \in DOMAIN T : T[p].leaf}),
     id |-> NewId(H)]
-----------------------------------------------------------------------------
(* CMapDB.get_cmap and CMapDB.get_unicode_map, statement by statement.     *)
(* A thread is the record of a call: op, name and vertical are the method  *)
(* and its arguments, pc the statement it is at, data the module that      *)
(* _load_data returned, root the dict pickle.loads made for CODE2CID, objs *)
(* the stores it has created, ret and exc its result.  X holds what a      *)
(* statement works on: the heap h, the two caches c and u, the directories *)
(* paths and the thread t.                                                 *)

Idle ==
    [op |-> "", name |-> "", vertical |-> FALSE, pc |-> "idle", data |-> NoData, root |-> NoRef,
     objs |-> << >>, ret |-> NoRef, exc |-> ""]

Raise(X, e) == [X EXCEPT !.t.pc = "raised", !.t.exc = e]

Return(X, obj) == [X EXCEPT !.t.pc = "returned", !.t.ret = obj]

\* get_cmap up to the cache: the reserved names, then klass._cmap_cache[name].
cmap_call(X) ==
    IF X.t.name \in {"Identity-H", "Identity-V"}
    THEN Return([X EXCEPT !.h = Put(@, NewId(@),
                                   StoreCell("IdentityCMap",
                                             Attr("WMode", IF X.t.name = "Identity-H" THEN 0 ELSE 1),
                                             NoRef, << >>))],
                NewId(X.h))
    ELSE IF X.t.name \in DOMAIN X.c THEN Return(X, X.c[X.t.name])
    ELSE [X EXCEPT !.t.pc = "load"]

\* get_unicode_map up to the cache: klass._umap_cache[name][vertical].
umap_call(X) ==
    IF X.t.name \in DOMAIN X.u THEN Return(X, X.u[X.t.name][IF X.t.vertical THEN 2 ELSE 1])
    ELSE [X EXCEPT !.t.pc = "load"]

\* data = klass._load_data(name): pickle.loads makes new dicts for CODE2CID.
loaded(X, l) ==
    IF l.exc # "" THEN Raise(X, l.exc)
    ELSE IF "CODE2CID" \in DOMAIN l.data
    THEN [X EXCEPT !.h = h_loads(X.h, l.data["CODE2CID"]).h, !.t.root = NewId(X.h),
                   !.t.data = l.data, !.t.pc = "new"]
    ELSE [X EXCEPT !.t.data = l.data, !.t.pc = "new"]

load(X) ==
    loaded(X, _load_data(X.paths, IF X.t.op = "get_cmap" THEN X.t.name
                                       ELSE "to-unicode-" \o X.t.name))

\* CMapBase.__init__, CMap.__init__ and UnicodeMap.__init__ on a new store of
\* class k: attrs = {'CMapName': name}; code2cid = {} or cid2unichr = {}.
new_cells(X, k) ==
    IF k = "PyCMap"
    THEN [X EXCEPT !.h = Put(Put(@, NewId(@), DictCell(<< >>)), NewId(@) + 1,
                             StoreCell(k, Attr("CMapName", X.t.name), NewId(@), << >>)),
                   !.t.objs = Append(@, NewId(X.h) + 1), !.t.pc = "init"]
    ELSE [X EXCEPT !.h = Put(@, NewId(@), StoreCell(k, Attr("CMapName", X.t.name), NoRef, << >>)),
                   !.t.objs = Append(@, NewId(X.h)), !.t.pc = "init"]

\* A store that is put into the cache as soon as it exists.
new_store_published(X, k) ==
    LET Y == new_cells(X, k)
    IN  IF X.t.op = "get_cmap" THEN [Y EXCEPT !.c = Put(@, X.t.name, Last(Y.t.objs))]
        ELSE IF Len(Y.t.objs) = 2 THEN [Y EXCEPT !.u = Put(@, X.t.name, Y.t.objs)]
        ELSE Y

\* PyCMap(name, data) and PyUnicodeMap(name, data, v) up to the body of their
\* __init__: the store exists, and only the thread holds it.
new_store(X, k) == new_cells(X, k)

\* PyCMap.__init__: self.code2cid = module.CODE2CID.
pycmap_init(X) ==
    IF "CODE2CID" \notin DOMAIN X.t.data THEN Raise(X, "AttributeError")
    ELSE [X EXCEPT !.h[Last(X.t.objs)].code2cid = X.t.root, !.t.pc = "wmode"]

\* PyCMap.__init__: if module.IS_VERTICAL: self.attrs['WMode'] = 1.
pycmap_wmode(X) ==
    IF "IS_VERTICAL" \notin DOMAIN X.t.data THEN Raise(X, "AttributeError")
    ELSE IF X.t.data["IS_VERTICAL"]
    THEN [X EXCEPT !.h[Last(X.t.objs)].attrs = Put(@, "WMode", 1), !.t.pc = "publish"]
    ELSE [X EXCEPT !.t.pc = "publish"]

\* PyUnicodeMap.__init__: self.cid2unichr = module.CID2UNICHR_V or _H.
pyunicodemap_init(X) ==
    LET v == Len(X.t.objs) = 2
        entry == IF v THEN "CID2UNICHR_V" ELSE "CID2UNICHR_H"
    IN  IF entry \notin DOMAIN X.t.data THEN Raise(X, "AttributeError")
        ELSE [X EXCEPT !.h[Last(X.t.objs)].cid2unichr = X.t.data[entry],
                       !.t.pc = IF v THEN "wmode" ELSE "new"]

\* PyUnicodeMap.__init__(vertical=True): self.attrs['WMode'] = 1.
pyunicodemap_wmode(X) ==
    [X EXCEPT !.h[Last(X.t.objs)].attrs = Put(@, "WMode", 1), !.t.pc = "publish"]

\* klass._cmap_cache[name] = cmap; return cmap.
cmap_publish(X) == Return([X EXCEPT !.c = Put(@, X.t.name, X.t.objs[1])], X.t.objs[1])

\* klass._umap_cache[name] = umaps; return umaps[vertical].
umap_publish(X) ==
    Return([X EXCEPT !.u = Put(@, X.t.name, X.t.objs)], X.t.objs[IF X.t.vertical THEN 2 ELSE 1])

\* The next statement of the thread of X.
db_step(X) ==
    IF X.t.op = "get_cmap"
    THEN IF X.t.pc = "call" THEN cmap_call(X)
         ELSE IF X.t.pc = "load" THEN load(X)
         ELSE IF X.t.pc = "new" THEN new_store(X, "PyCMap")
         ELSE IF X.t.pc = "init" THEN pycmap_init(X)
         ELSE IF X.t.pc = "wmode" THEN pycmap_wmode(X)
         ELSE cmap_publish(X)
    ELSE IF X.t.pc = "call" THEN umap_call(X)
         ELSE IF X.t.pc = "load" THEN load(X)
         ELSE IF X.t.pc = "new" THEN new_store(X, "PyUnicodeMap")
         ELSE IF X.t.pc = "init" THEN pyunicodemap_init(X)
         ELSE IF X.t.pc = "wmode" THEN pyunicodemap_wmode(X)
         ELSE umap_publish(X)

Running(t) == t.pc \notin {"idle", "returned", "raised"}

\* A call that no other thread interleaves with.
RECURSIVE db_run(_)
db_run(X) == IF Running(X.t) THEN db_run(db_step(X)) ELSE X

\* CMapDB.get_cmap(name) on the heap H and the cache.
h_get_cmap(H, cache, paths, name) ==
    db_run([h |-> H, c |-> cache, u |-> << >>, paths |-> paths,
            t |-> [Idle EXCEPT !.op = "get_cmap", !.name = name, !.pc = "call"]])
-----------------------------------------------------------------------------
(* A FileCMap filled by usecmap and cidchar statements, its dicts and the  *)
(* dicts of the cached stores being objects of one heap.  Here code2cid is *)
(* the identity of the dict of the store being built, and _cmap_cache maps *)
(* a name to the identity of its store.                                    *)

\* self.cmap.use_cmap(CMapDB.get_cmap(name)) once get_cmap has come to X.
h_use_resolved(X, target) ==
    IF X.t.exc = "CMapNotFound" THEN [h |-> X.h, c |-> X.c, exc |-> "", used |-> NoRef]
    ELSE IF X.t.exc # "" THEN [h |-> X.h, c |-> X.c, exc |-> X.t.exc, used |-> NoRef]
    ELSE IF X.h[X.t.ret].klass # "PyCMap"
    THEN [h |-> X.h, c |-> X.c, exc |-> "AssertionError", used |-> NoRef]
    ELSE [h |-> h_use_cmap(X.h, target, X.h[X.t.ret].code2cid), c |-> X.c, exc |-> "",
          used |-> X.t.ret]

\* n: statements met; pub: the trie of each cached store when it was put into
\* the cache, by name; used: the names whose store was copied into the target.
HeapHist == [n |-> 0, pub |-> << >>, used |-> {}]

MaxStatements == 3

HeapNames == {"A", "B", "NoSuchCMap-X", "Identity-H"}

HeapCodes == { <<0>>, <<1>>, <<0, 1>>, <<1, 0>>, <<1, 1>> }

\* The resource files: A maps two codes under the first byte 1, B a code
\* under the first byte 0 and the one-byte code 1.
HeapFiles ==
    Put(Put(<< >>, "A.pickle.gz",
            Attr("CODE2CID", build(EmptyTrie, << <<(<<1, 0>>), 20>>, <<(<<1, 1>>), 21>> >>))
                @@ Attr("IS_VERTICAL", FALSE)),
        "B.pickle.gz",
        Attr("CODE2CID", build(EmptyTrie, << <<(<<0, 0>>), 30>>, <<(<<1>>), 31>> >>))
            @@ Attr("IS_VERTICAL", TRUE))

\* The statement /name usecmap.
Usecmap(name) ==
    /\ pc = "parse"
    /\ hist.n < MaxStatements
    /\ \E r \in {h_use_resolved(h_get_cmap(heap, _cmap_cache, cmap_paths, name), code2cid)} :
           /\ heap' = r.h
           /\ _cmap_cache' = r.c
           /\ pc' = IF r.exc # "" THEN "raised" ELSE pc
           /\ call' = [op |-> "do_keyword", arg |-> <<"usecmap", <<LitObj(name)>> >>, ret |-> <<>>,
                       exc |-> r.exc]
           /\ hist' = [hist EXCEPT
                  !.n = @ + 1,
                  !.used = IF r.used # NoRef THEN @ \cup {name} ELSE @,
                  !.pub = IF name \in DOMAIN r.c /\ name \notin DOMAIN _cmap_cache
                          THEN Put(@, name, cmap_paths[1][name \o ".pickle.gz"]["CODE2CID"])
                          ELSE @]
    /\ UNCHANGED <<storeVars, curstack, in_cmap, cmap_bfrange_items, drop_bfrange_items,
                   _umap_cache, cmap_paths, threads>>

\* The statement <cid> <code> endcidchar between begincidchar and endcidchar:
\* self.cmap.add_code2cid(code, nunpack(cid)).
Cidchar(cid, code) ==
    /\ pc = "parse"
    /\ hist.n < MaxStatements
    /\ \E r \in {h_add_code2cid(heap, code2cid, code, nunpack(cid))} :
           /\ heap' = r.h
           /\ pc' = IF r.exc # "" THEN "raised" ELSE pc
           /\ call' = [op |-> "do_keyword", arg |-> <<"endcidchar", <<StrObj(cid), StrObj(code)>> >>,
                       ret |-> <<>>, exc |-> r.exc]
    /\ hist' = [hist EXCEPT !.n = @ + 1]
    /\ UNCHANGED <<storeVars, curstack, in_cmap, cmap_bfrange_items, drop_bfrange_items, dbVars,
                   threads>>

InitHeap ==
    /\ klass = "FileCMap"
    /\ attrs = << >>
    /\ code2cid = 0
    /\ cid2unichr = << >>
    /\ bfranges = << >>
    /\ curstack = << >>
    /\ in_cmap = TRUE
    /\ cmap_bfrange_items = << >>
    /\ drop_bfrange_items = << >>
    /\ pc = "parse"
    /\ _cmap_cache = << >>
    /\ _umap_cache = << >>
    /\ cmap_paths = << HeapFiles, << >> >>
    /\ heap = Put(<< >>, 0, DictCell(<< >>))
    /\ threads = << >>
    /\ call = NoCall
    /\ hist = HeapHist

NextHeap ==
    \/ \E name \in HeapNames : Usecmap(name)
    \/ \E code \in HeapCodes : Cidchar(<<7>>, code)

SpecHeap == InitHeap /\ [][NextHeap]_vars
-----------------------------------------------------------------------------
(* Threads that call CMapDB.get_cmap and CMapDB.get_unicode_map at the     *)
(* same time.  A statement of one thread is atomic; the threads take turns *)
(* in any order.                                                           *)

NThreads == 2

Threads == 1..NThreads

\* The resource files: the vertical CMap A, its to-unicode file.
ThreadFiles ==
    Put(Put(<< >>, "A.pickle.gz",
            Attr("CODE2CID", build(EmptyTrie, << <<(<<1, 0>>), 20>>, <<(<<1, 1>>), 21>> >>))
                @@ Attr("IS_VERTICAL", TRUE)),
        "to-unicode-A.pickle.gz",
        Attr("CID2UNICHR_H", Put(<< >>, 20, <<65>>)) @@ Attr("CID2UNICHR_V", Put(<< >>, 20, <<66>>)))

\* The calls made: the CMap A, the to-unicode file taken for a CMap, a name of
\* no resource; the Unicode maps of A.
ThreadCalls ==
    { <<"get_cmap", "A", FALSE>>, <<"get_cmap", "to-unicode-A", FALSE>>,
      <<"get_cmap", "NoSuchCMap-X", FALSE>>,
      <<"get_unicode_map", "A", FALSE>>, <<"get_unicode_map", "A", TRUE>> }

\* loads: how often _load_data returned a file, by file name.
ThreadHist == [loads |-> << >>]

\* Thread i calls CMapDB.get_cmap(name) or CMapDB.get_unicode_map(name, vertical).
Call(i, c) ==
    /\ threads[i].pc = "idle"
    /\ threads' = [threads EXCEPT ![i] = [Idle EXCEPT !.op = c[1], !.name = c[2],
                                                     !.vertical = c[3], !.pc = "call"]]
    /\ call' = [op |-> c[1], arg |-> <<i, c[2], c[3]>>, ret |-> <<>>, exc |-> ""]
    /\ UNCHANGED <<storeVars, parserVars, dbVars, heap, hist>>

\* Thread i executes its next statement.
Step(i) ==
    /\ Running(threads[i])
    /\ \E X \in {db_step([h |-> heap, c |-> _cmap_cache, u |-> _umap_cache, paths |-> cmap_paths,
                          t |-> threads[i]])} :
           /\ heap' = X.h
           /\ _cmap_cache' = X.c
           /\ _umap_cache' = X.u
           /\ threads' = [threads EXCEPT ![i] = X.t]
           /\ call' = [op |-> threads[i].op, arg |-> <<i, threads[i].name, threads[i].vertical>>,
                       ret |-> X.t.ret, exc |-> X.t.exc]
           /\ hist' = [hist EXCEPT !.loads = IF threads[i].pc = "load" /\ X.t.pc = "new"
                                             THEN Count(@, IF threads[i].op = "get_cmap"
                                                           THEN threads[i].name
                                                           ELSE "to-unicode-" \o threads[i].name)
                                             ELSE @]
    /\ UNCHANGED <<storeVars, parserVars, cmap_paths>>

InitThreads ==
    /\ klass = "FileCMap"
    /\ attrs = << >>
    /\ code2cid = EmptyTrie
    /\ cid2unichr = << >>
    /\ bfranges = << >>
    /\ curstack = << >>
    /\ in_cmap = TRUE
    /\ cmap_bfrange_items = << >>
    /\ drop_bfrange_items = << >>
    /\ pc = "parse"
    /\ _cmap_cache = << >>
    /\ _umap_cache = << >>
    /\ cmap_paths = << ThreadFiles, << >> >>
    /\ heap = << >>
    /\ threads = [i \in Threads |-> Idle]
    /\ call = NoCall
    /\ hist = ThreadHist

NextThreads ==
    \/ \E i \in Threads, c \in ThreadCalls : Call(i, c)
    \/ \E i \in Threads : Step(i)

SpecThreads == InitThreads /\ [][NextThreads]_vars
-----------------------------------------------------------------------------
(* Properties of the trie and of the identity map.                         *)

\* No code of pairs is a prefix of (or equal to) the code of another pair.
PrefixFree(pairs) ==
    \A i, j \in DOMAIN pairs : i # j => ~IsPrefix(pairs[i][1], pairs[j][1])

CodesOf(pairs, ks) == Concat([i \in DOMAIN ks |-> pairs[ks[i]][1]])

CidsOf(pairs, ks) == [i \in DOMAIN ks |-> pairs[ks[i]][2]]

\* C1: round trip.  When only add_code2cid has filled the store, from empty, with
\* pairs whose codes are pairwise distinct and prefix-free, decoding the
\* concatenation of any sequence of those codes yields exactly their CIDs, in order.
C1_RoundTrip ==
    (call.op = "decode" /\ ~hist.used /\ PrefixFree(hist.pairs)) =>
        \A ks \in SeqsUpTo(DOMAIN hist.pairs, MaxDecodeLen) :
            CodesOf(hist.pairs, ks) = call.arg =>
                call.exc = "" /\ call.ret = CidsOf(hist.pairs, ks)

\* Two codes of different lengths were inserted and decoded in the other order.
C1_Witness ==
    /\ call.op = "decode" /\ ~hist.used /\ PrefixFree(hist.pairs)
    /\ Len(hist.pairs) = 2
    /\ Len(hist.pairs[1][1]) # Len(hist.pairs[2][1])
    /\ call.arg = hist.pairs[2][1] \o hist.pairs[1][1]
    /\ call.ret = <<hist.pairs[2][2], hist.pairs[1][2]>>

\* C2: decode is lenient and never fails.  On every trie add_code2cid and use_cmap
\* produce and every byte string, decode raises nothing, and at every byte: with
\* no edge from the current node nothing is emitted and the walk is at the root for
\* the next byte; a CID is emitted exactly when the edge leads to a leaf, and the
\* walk is then at the root; otherwise the walk moves to the inner node.
C2_DecodeLenient ==
    call.op = "decode" =>
        /\ call.exc = ""
        /\ \A k \in 0..(Len(call.arg) - 1) :
              LET s  == decode(code2cid, SubSeq(call.arg, 1, k))
                  s1 == decode(code2cid, SubSeq(call.arg, 1, k + 1))
                  p  == Append(s.d, call.arg[k + 1])
              IN  /\ s1.exc = ""
                  /\ ~HasKey(code2cid, p) => (s1.out = s.out /\ s1.d = <<>>)
                  /\ (s1.out # s.out) <=> (HasKey(code2cid, p) /\ code2cid[p].leaf)
                  /\ (HasKey(code2cid, p) /\ code2cid[p].leaf) =>
                        (s1.out = Append(s.out, code2cid[p].cid) /\ s1.d = <<>>)
                  /\ (HasKey(code2cid, p) /\ ~code2cid[p].leaf) => s1.d = p
        /\ call.ret = decode(code2cid, call.arg).out

\* A byte met in the middle of a code had no edge there although the root has one
\* for it, on a trie use_cmap took part in, and a CID was emitted as well.
C2_Witness ==
    /\ call.op = "decode" /\ hist.used /\ Len(hist.pairs) >= 1
    /\ Len(call.ret) >= 1
    /\ \E k \in 0..(Len(call.arg) - 1) :
          LET s == decode(code2cid, SubSeq(call.arg, 1, k))
          IN  /\ s.d # <<>>
              /\ ~HasKey(code2cid, Append(s.d, call.arg[k + 1]))
              /\ HasKey(code2cid, <<call.arg[k + 1]>>)

\* The 16-bit big-endian values of the consecutive byte pairs of code.
Pairs16(code) == [i \in 1..(Len(code) \div 2) |-> code[2 * i - 1] * 256 + code[2 * i]]

\* C3: the identity decode of every byte string is the sequence of the big-endian
\* 16-bit values of its consecutive byte pairs; a trailing odd byte is dropped and
\* the call does not fail.
C3_IdentityDecode ==
    call.op = "identity_decode" => (call.exc = "" /\ call.ret = Pairs16(call.arg))

-----------------------------------------------------------------------------
(* Properties of the cidrange and cidchar operations.                      *)

\* The last step was the keyword kw, and do_keyword returned from it.
KeywordDone(kw) == call.op = "do_keyword" /\ call.arg[1] = kw /\ call.exc = ""

\* The groups of n operands the last keyword drained.
Drained(n) == choplist(n, call.arg[2])

\* The codes that are leaves of the trie T.
LeafCodes(T) == {p \in DOMAIN T : T[p].leaf}

\* The numeral v in w bytes, big-endian.
suffix(v, w) == IF w = 0 THEN <<>> ELSE lastn(pack_L(v), w)

\* The conditions of the cidrange claim on a group (start_code, end_code, cid_base).
CidrangeOk(g) ==
    /\ g[1].t = "str" /\ g[2].t = "str" /\ g[3].t = "int"
    /\ Len(g[1].s) = Len(g[2].s)
    /\ butlastn(g[1].s, 4) = butlastn(g[2].s, 4)
    /\ nunpack(lastn(g[1].s, 4)) <= nunpack(lastn(g[2].s, 4))

\* The codes start..end of a group, in order: prefix + suffix(start + i).
CidrangeCodes(g) ==
    LET s1 == nunpack(lastn(g[1].s, 4))
        e1 == nunpack(lastn(g[2].s, 4))
        w == IF Len(g[1].s) < 4 THEN Len(g[1].s) ELSE 4
    IN  [i \in 1..(e1 - s1 + 1) |-> butlastn(g[1].s, 4) \o suffix(s1 + i - 1, w)]

CidrangeCids(g) ==
    [i \in 1..(nunpack(lastn(g[2].s, 4)) - nunpack(lastn(g[1].s, 4)) + 1) |-> g[3].n + i - 1]

\* The trie maps the codes of g to its CIDs, and decode of the codes in order
\* yields the CIDs in order.
CidrangeMapped(g) ==
    /\ \A i \in DOMAIN CidrangeCodes(g) :
           /\ HasKey(code2cid, CidrangeCodes(g)[i])
           /\ code2cid[CidrangeCodes(g)[i]] = Leaf(CidrangeCids(g)[i])
    /\ decode(code2cid, Concat(CidrangeCodes(g))).out = CidrangeCids(g)

\* The codes endcidrange inserts for the group g alone.
CidrangeInserts(g) == LeafCodes(cidrange_group([Cur EXCEPT !.t = EmptyTrie], g).t)

\* No group after the k-th inserts a code equal to, or a prefix of, a code of the k-th.
CidrangeKept(gs, k) ==
    \A j \in (k + 1)..Len(gs) : \A x \in CidrangeInserts(gs[j]) :
        \A i \in DOMAIN CidrangeCodes(gs[k]) : ~IsPrefix(x, CidrangeCodes(gs[k])[i])

C5_CidcharInt ==
    KeywordDone("endcidchar") =>
        \A k \in DOMAIN Drained(2) :
            LET code == Drained(2)[k][1]
                cid == Drained(2)[k][2]
            IN  (/\ code.t = "str" /\ cid.t = "int" /\ Len(code.s) > 0
                 /\ \A x \in LeafCodes(hist.t0) : ~(IsPrefix(x, code.s) /\ x # code.s)
                 /\ \A j \in (k + 1)..Len(Drained(2)) : \A o \in {1, 2} :
                        Drained(2)[j][o].t = "str" =>
                            /\ ~IsPrefix(Drained(2)[j][o].s, code.s)
                            /\ ~IsPrefix(code.s, Drained(2)[j][o].s))
                => decode(code2cid, code.s).out = <<cid.n>>
-----------------------------------------------------------------------------
(* Properties of the bfrange operation and of get_unichr.                  *)

\* The conditions of the list-form claim on a group (start, end, list).
BfListOk(g) ==
    /\ g[1].t = "str" /\ g[2].t = "str" /\ g[3].t = "list"
    /\ Len(g[1].s) = Len(g[2].s)
    /\ nunpack(g[1].s) <= nunpack(g[2].s)
    /\ Len(g[3].l) = nunpack(g[2].s) - nunpack(g[1].s) + 1
    /\ \A i \in DOMAIN g[3].l : g[3].l[i].t = "str"

\* get_unichr(start + i) is the UTF-16BE text of list[i], for every i.
BfListMapped(g) ==
    \A i \in DOMAIN g[3].l :
        LET r == get_unichr(cid2unichr, bfranges, nunpack(g[1].s) + i - 1)
        IN  r.exc = "" /\ r.ret = utf16be(g[3].l[i].s)

\* The CIDs endbfrange assigns for the group g alone.
BfrangeAssigns(g) == DOMAIN bfrange_group([Cur EXCEPT !.u = <<>>], g).u

\* No group after the k-th assigns a CID of the k-th again.
BfListKept(gs, k) ==
    \A j \in (k + 1)..Len(gs) :
        BfrangeAssigns(gs[j]) \cap (nunpack(gs[k][1].s)..nunpack(gs[k][2].s)) = {}

C7_Truncation ==
    (KeywordDone("endbfrange") /\ Len(Drained(3)) = 1) =>
        LET g == Drained(3)[1]
            s1 == nunpack(g[1].s)
            e1 == nunpack(g[2].s)
            base == nunpack(lastn(g[3].s, 4))
            block == get_unicode_charset_entry(base)
        IN  (/\ g[1].t = "str" /\ g[2].t = "str" /\ g[3].t = "str"
             /\ Len(g[1].s) = Len(g[2].s) /\ Len(g[3].s) = 2
             /\ s1 <= e1 /\ block # <<>> /\ base + (e1 - s1) > block[2]) =>
                /\ \A cid \in s1..(s1 + block[2] - base) :
                       cid \in DOMAIN cid2unichr /\ cid2unichr[cid] = <<base + cid - s1>>
                /\ \A cid \in (s1 + block[2] - base + 1)..e1 :
                       IF cid \in DOMAIN hist.u0
                       THEN cid \in DOMAIN cid2unichr /\ cid2unichr[cid] = hist.u0[cid]
                       ELSE cid \notin DOMAIN cid2unichr

BfBaseOk(g) ==
    /\ g[1].t = "str" /\ g[2].t = "str" /\ g[3].t = "str"
    /\ Len(g[1].s) = Len(g[2].s)
    /\ nunpack(g[1].s) <= nunpack(g[2].s)

\* The entries of the list L for the group g: (start, e2, base, base - start)
\* with start <= e2 <= end.
EntriesOf(L, g) ==
    {i \in DOMAIN L : /\ L[i][1] = nunpack(g[1].s)
                      /\ L[i][3] = nunpack(lastn(g[3].s, 4))
                      /\ L[i][4] = L[i][3] - L[i][1]
                      /\ L[i][1] <= L[i][2] /\ L[i][2] <= nunpack(g[2].s)}

\* C18: after endbfrange, every base-form group with start <= end whose base is
\* in a Unicode block has exactly one accepted entry (start, e2, base,
\* base-start), none among the dropped, and the CIDs start..e2 are in the direct
\* table; a group whose base is in no block has one dropped entry, no accepted
\* one, and has put no CID into the table.
C18_Admission ==
    KeywordDone("endbfrange") =>
        \A k \in DOMAIN Drained(3) :
            LET g == Drained(3)[k]
            IN  BfBaseOk(g) =>
                    IF get_unicode_charset_entry(nunpack(lastn(g[3].s, 4))) # << >>
                    THEN /\ Cardinality(EntriesOf(cmap_bfrange_items, g)) = 1
                         /\ EntriesOf(drop_bfrange_items, g) = {}
                         /\ \A i \in EntriesOf(cmap_bfrange_items, g) :
                                \A cid \in cmap_bfrange_items[i][1]..cmap_bfrange_items[i][2] :
                                    cid \in DOMAIN cid2unichr
                    ELSE /\ EntriesOf(cmap_bfrange_items, g) = {}
                         /\ Cardinality(EntriesOf(drop_bfrange_items, g)) = 1
                         /\ Len(Drained(3)) = 1 => cid2unichr = hist.u0
-----------------------------------------------------------------------------
(* Properties of the fixup pass.                                           *)

\* run() returned, fixup_cmaps having worked on the accepted entries call.arg.
FixupDone == call.op = "run" /\ call.exc = ""

\* C8: after the fixup pass, for every two accepted entries that are consecutive
\* in cid_start order and have the same offset, every CID strictly between the
\* end of the earlier and the start of the later maps to cid+offset in the direct
\* table (the back-fill of their merge).
C8_GapFill ==
    FixupDone =>
        \A k \in 1..(Len(call.arg) - 1) :
            LET a == sorted(call.arg)[k]
                b == sorted(call.arg)[k + 1]
            IN  a[4] = b[4] =>
                    \A cid \in (a[2] + 1)..(b[1] - 1) :
                        cid \in DOMAIN cid2unichr /\ cid2unichr[cid] = <<cid + a[4]>>

\* The Unicode interval of the entry x lies within that of the entry y.
Within(x, y) == x[3] >= y[3] /\ x[3] + x[2] - x[1] <= y[3] + y[2] - y[1]

\* C9: after the fixup pass the extrapolation index of the store holds no entry
\* whose Unicode interval [unicode_base, unicode_base + cid_end - cid_start] is
\* fully contained in the Unicode interval of a different entry of the index.
C9_NoSubset ==
    FixupDone =>
        \A i, j \in DOMAIN bfranges :
            (i # j /\ bfranges[i] # bfranges[j]) => ~Within(bfranges[i], bfranges[j])

\* The entries of the list B are in cid_start order.
SortedByStart(B) == \A i, j \in DOMAIN B : i < j => B[i][1] <= B[j][1]

\* No two entries of the list B that are consecutive in cid_start order have
\* the same offset.
NoneMergeable(B) == \A k \in 1..(Len(B) - 1) : sorted(B)[k][4] # sorted(B)[k + 1][4]

\* C17: after run() has returned from a stream with at least one accepted
\* base-form bfrange, the bfranges list of the store is not empty and is in
\* cid_start order; when no two accepted entries were mergeable it is the list
\* of the accepted entries, sorted.
C17_IndexInstalled ==
    (FixupDone /\ call.arg # << >>) =>
        /\ bfranges # << >> /\ SortedByStart(bfranges)
        /\ NoneMergeable(call.arg) => bfranges = sorted(call.arg)

\* C19: every accepted entry lies, with its offset, within an entry of the list
\* the merge pass returns for the accepted entries: the entry it was merged into
\* spans it, and an entry that was not merged is in the list itself.
C19_MergedSpans ==
    FixupDone =>
        \A i \in DOMAIN call.arg :
            \E m \in Range(fill_cmap_by_ranges(Cur, call.arg).res) :
                /\ m[4] = call.arg[i][4]
                /\ m[1] <= call.arg[i][1] /\ call.arg[i][2] <= m[2]
-----------------------------------------------------------------------------
(* Properties of the extrapolation lookup.                                 *)

\* The entry item qualifies for cid: cid + offset lies in the Unicode block of
\* the table that holds unicode_base.
Qualifies(cid, item) ==
    LET block == get_unicode_charset_entry(cid + item[4])
    IN  block # <<>> /\ block[1] <= item[3] /\ item[3] <= block[2]

\* The last entry of the index B with cid_start <= cid, <<>> if there is none.
Predecessor(B, cid) ==
    LET I == {k \in DOMAIN B : B[k][1] <= cid}
    IN  IF I = {} THEN <<>> ELSE B[CHOOSE k \in I : \A j \in I : j <= k]

\* The first entry of the index B with cid_start > cid, <<>> if there is none.
Successor(B, cid) ==
    LET I == {k \in DOMAIN B : B[k][1] > cid}
    IN  IF I = {} THEN <<>> ELSE B[CHOOSE k \in I : \A j \in I : k <= j]

\* Neither neighbour of cid in the index B qualifies (none does in an empty index).
NoNeighbour(B, cid) ==
    /\ Predecessor(B, cid) # <<>> => ~Qualifies(cid, Predecessor(B, cid))
    /\ Successor(B, cid) # <<>> => ~Qualifies(cid, Successor(B, cid))

\* C11: a call get_unichr(cid) for a CID absent from the direct table, when no
\* neighbour of cid in the bfrange index qualifies or the index is empty, fails
\* with KeyError (the undefined-CID error) and leaves the direct table and the
\* bfrange index as they were.
C11_ExtrapolationFailure ==
    [][\A cid \in BfCids :
          (GetUnichr(cid) /\ cid \notin DOMAIN cid2unichr /\ NoNeighbour(bfranges, cid)) =>
              (call'.exc = "KeyError" /\ cid2unichr' = cid2unichr /\ bfranges' = bfranges)]_vars

\* get_unichr failed on a CID that the table lacks, with an index whose only
\* neighbour of the CID does not qualify.
C11_Witness ==
    /\ call.op = "get_unichr" /\ call.exc = "KeyError"
    /\ call.arg \notin DOMAIN cid2unichr
    /\ bfranges # <<>> /\ NoNeighbour(bfranges, call.arg)

\* The entry item of the index qualifies for cid; no entry (<<>>) does not.
QualifiesAt(cid, item) == item # << >> /\ Qualifies(cid, item)

\* The entry the selection rule names for cid in the index B, <<>> for no match.
NearestEntry(B, cid, p, s) ==
    IF QualifiesAt(cid, p) /\ QualifiesAt(cid, s)
    THEN (IF cid - p[2] < s[1] - cid THEN p ELSE s)
    ELSE IF QualifiesAt(cid, p) THEN p
    ELSE IF QualifiesAt(cid, s) THEN s
    ELSE << >>

\* C20: get_nearest_bfrange(cid) returns, of the predecessor and the successor
\* of cid in the index, the one that qualifies, the predecessor if both qualify
\* and cid - pred.cid_end < succ.cid_start - cid, the successor if both qualify
\* otherwise, and no entry if neither qualifies; and the scalar get_unichr
\* synthesizes for a CID absent from the table is cid + offset of that entry and
\* lies in the Unicode block of the entry's unicode_base.
C20_NearestEntry ==
    /\ call.op = "get_nearest_bfrange" =>
           call.ret = NearestEntry(bfranges, call.arg, Predecessor(bfranges, call.arg),
                                   Successor(bfranges, call.arg))
    /\ (call.op = "get_unichr" /\ call.arg \notin DOMAIN hist.u0 /\ call.exc = "") =>
           LET e == NearestEntry(bfranges, call.arg, Predecessor(bfranges, call.arg),
                                 Successor(bfranges, call.arg))
           IN  /\ e # << >> /\ call.ret = <<call.arg + e[4]>>
               /\ get_unicode_charset_entry(call.ret[1]) = get_unicode_charset_entry(e[3])

\* Both neighbours of the CID qualified and the successor, being nearer, was
\* returned.
C20_Witness ==
    /\ call.op = "get_nearest_bfrange"
    /\ QualifiesAt(call.arg, Predecessor(bfranges, call.arg))
    /\ QualifiesAt(call.arg, Successor(bfranges, call.arg))
    /\ call.ret = Successor(bfranges, call.arg)
    /\ call.ret # Predecessor(bfranges, call.arg)
-----------------------------------------------------------------------------
(* Properties of the resource cache.                                       *)

ReservedNames == {"Identity-H", "Identity-V"}

\* No directory holds the resource file of name.
Absent(name) ==
    \A k \in DOMAIN cmap_paths : (name \o ".pickle.gz") \notin DOMAIN cmap_paths[k]

\* C12: get_cmap(name) for a non-reserved name whose resource file is in none of
\* the directories fails with CMapNotFound and leaves both caches as they were,
\* with no entry for name; every such call, a later one too, calls _load_data.
C12_UnknownResource ==
    (call.op = "get_cmap" /\ call.arg \notin ReservedNames /\ Absent(call.arg)) =>
        /\ call.exc = "CMapNotFound"
        /\ _cmap_cache = hist.c0 /\ _umap_cache = hist.u0
        /\ call.arg \notin DOMAIN _cmap_cache
        /\ hist.tried

\* get_cmap failed for the second time on the same name, a file being installed.
C12_Witness ==
    /\ call.op = "get_cmap" /\ call.exc = "CMapNotFound"
    /\ call.arg \in DOMAIN hist.notfound /\ hist.notfound[call.arg] = 2
    /\ ~Absent("A")

\* C13: once get_cmap(name) has succeeded for a non-reserved name, the cache
\* holds the store it returned from then on, the resource was loaded once for it,
\* and a later get_cmap(name) returns that store without calling _load_data and
\* leaves the caches alone; likewise for get_unicode_map and its two stores.
C13_CacheStable ==
    /\ \A n \in (DOMAIN hist.first) \ ReservedNames :
           /\ n \in DOMAIN _cmap_cache /\ _cmap_cache[n] = hist.first[n]
           /\ hist.loads[n] = 1
    /\ \A k \in DOMAIN hist.ufirst :
           /\ k[1] \in DOMAIN _umap_cache
           /\ _umap_cache[k[1]][IF k[2] THEN 2 ELSE 1] = hist.ufirst[k]
           /\ hist.uloads[k[1]] = 1
    /\ (call.op = "get_cmap" /\ call.arg \notin ReservedNames /\ call.arg \in DOMAIN hist.c0) =>
           /\ call.exc = "" /\ call.ret = hist.first[call.arg] /\ ~hist.tried
           /\ _cmap_cache = hist.c0 /\ _umap_cache = hist.u0
    /\ (call.op = "get_unicode_map" /\ call.arg[1] \in DOMAIN hist.u0) =>
           /\ call.exc = "" /\ call.ret = hist.ufirst[call.arg]
           /\ call.ret = _umap_cache[call.arg[1]][IF call.arg[2] THEN 2 ELSE 1]
           /\ ~hist.tried
           /\ _cmap_cache = hist.c0 /\ _umap_cache = hist.u0

\* get_cmap("A") returned the cached store although the file that _load_data
\* would find by now holds another trie.
C13_Witness ==
    /\ call.op = "get_cmap" /\ call.arg = "A" /\ call.exc = "" /\ ~hist.tried
    /\ _load_data(cmap_paths, "A").exc = ""
    /\ _load_data(cmap_paths, "A").data["CODE2CID"] # call.ret.code2cid
-----------------------------------------------------------------------------
(* Properties of the interpreter on malformed operands.                    *)

\* C14: whatever the operand stack holds, do_keyword returns from every keyword
\* without raising, and the parser goes on with the tokens that follow.
C14_NeverAborts ==
    call.op = "do_keyword" => (call.exc = "" /\ pc = "parse")
-----------------------------------------------------------------------------
(* Properties of use_cmap.                                                 *)

\* The subtree of the trie T at the first-byte key k: the paths from k on.
Subtree(T, k) == [p \in {q \in DOMAIN T : q[1] = k} |-> T[p]]

\* The first-byte keys of the trie T.
FirstBytes(T) == {q[1] : q \in DOMAIN T}

\* C15: after dst.use_cmap(src), the subtree of the destination at every
\* first-byte key of the source equals the subtree of the source at that key,
\* and its subtree at every other key is as it was.
C15_SubtreeReplacement ==
    [][\A S \in SourceTries :
          (call'.op = "use_cmap" /\ UseCmap(S)) =>
              \A k \in FirstBytes(S) \cup FirstBytes(code2cid) \cup FirstBytes(code2cid') :
                  IF <<k>> \in DOMAIN S
                  THEN Subtree(code2cid', k) = Subtree(S, k)
                  ELSE Subtree(code2cid', k) = Subtree(code2cid, k)]_vars

\* use_cmap replaced the subtree at key 0, which held the code <0, 1>, by that
\* of a source with the code <0, 0> only: <0, 1> no longer decodes.
C15_Witness ==
    /\ call.op = "use_cmap"
    /\ \E i \in DOMAIN hist.pairs : hist.pairs[i][1] = <<0, 1>>
    /\ <<0, 0>> \in DOMAIN code2cid /\ <<0, 1>> \notin DOMAIN code2cid
    /\ decode(code2cid, <<0, 1>>).out = << >>
-----------------------------------------------------------------------------
(* Properties of reversed cidrange bounds.                                 *)

\* The group (start_code, end_code, cid_base) passes the checks of endcidrange
\* and its end is numerically below its start.
Reversed(g) ==
    /\ g[1].t = "str" /\ g[2].t = "str" /\ g[3].t = "int"
    /\ Len(g[1].s) = Len(g[2].s)
    /\ butlastn(g[1].s, 4) = butlastn(g[2].s, 4)
    /\ nunpack(lastn(g[2].s, 4)) < nunpack(lastn(g[1].s, 4))

NotReversed(g) == ~Reversed(g)

\* The operands of the groups of three of stack that are not reversed.
WithoutReversed(stack) == Concat(SelectSeq(choplist(3, stack), NotReversed))

\* C16: endcidrange does on its operands what it does on them with the reversed
\* groups taken out: a reversed group inserts nothing and raises nothing, so a
\* keyword of reversed groups only returns with the trie as it was.
C16_ReversedBounded ==
    (call.op = "do_keyword" /\ call.arg[1] = "endcidrange") =>
        /\ do_keyword([klass |-> klass, t |-> hist.t0, u |-> hist.u0, b |-> bfranges,
                       stack |-> WithoutReversed(call.arg[2]), in_cmap |-> TRUE,
                       items |-> << >>, drops |-> << >>, exc |-> ""], "endcidrange").t = code2cid
        /\ (\A k \in DOMAIN Drained(3) : Reversed(Drained(3)[k])) =>
               (call.exc = "" /\ code2cid = hist.t0 /\ pc = "parse")

\* endcidrange returned from a reversed group followed by a group that it
\* expanded into the trie.
C16_Witness ==
    /\ KeywordDone("endcidrange") /\ Len(Drained(3)) = 2
    /\ Reversed(Drained(3)[1])
    /\ CidrangeOk(Drained(3)[2]) /\ CidrangeMapped(Drained(3)[2])
    /\ code2cid # hist.t0
-----------------------------------------------------------------------------
(* Direct entries and the bfrange index.                                   *)

\* The CIDs of the table that no accepted base-form entry of the running parser
\* covers: while the first parser runs on the store, these were assigned by
\* bfchar or by a list-form bfrange.
DirectCids ==
    {cid \in DOMAIN cid2unichr :
        \A k \in DOMAIN cmap_bfrange_items :
            ~(cmap_bfrange_items[k][1] <= cid /\ cid <= cmap_bfrange_items[k][2])}

Kept(cid) == cid \in DOMAIN cid2unichr' /\ cid2unichr'[cid] = cid2unichr[cid]

\* C21: bfrange entries never override direct entries: the fixup pass at the
\* end of the run leaves every CID that bfchar or a list-form bfrange assigned
\* with its text, and get_unichr changes the text of no CID the table holds.
C21_DirectKept ==
    [][/\ (call'.op = "run" /\ hist.runs = 1) => \A cid \in DirectCids : Kept(cid)
       /\ call'.op = "get_unichr" => \A cid \in DOMAIN cid2unichr : Kept(cid)]_vars
-----------------------------------------------------------------------------
(* The gate of begincmap and endcmap.                                      *)

\* What a keyword must leave alone between endcmap and begincmap.
gated == <<code2cid, cid2unichr, bfranges, attrs, cmap_bfrange_items, drop_bfrange_items>>

\* C22: a parser starts with in_cmap true; endcmap sets it to false and begincmap
\* sets it to true and clears the operand stack; while it is false, every
\* keyword but begincmap leaves the trie, the table, the attributes and the
\* accepted and dropped scratch lists of the store as they are, and in_cmap false.
C22_Gate ==
    /\ in_cmap = TRUE
    /\ [][call'.op = "do_keyword" =>
            /\ call'.arg[1] = "endcmap" => ~in_cmap'
            /\ call'.arg[1] = "begincmap" => (in_cmap' /\ curstack' = << >>)
            /\ (~in_cmap /\ call'.arg[1] # "begincmap") =>
                   (gated' = gated /\ ~in_cmap' /\ call'.exc = "")]_vars

\* A statement that was skipped after endcmap though it would have changed the store.
C22_Witness ==
    /\ call.op = "do_keyword"
    /\ ~in_cmap
    /\ call.arg[1] \in {"def", "usecmap", "endcidrange", "endcidchar", "endbfrange", "endbfchar"}
    /\ curstack = call.arg[2]
    /\ LET S == do_keyword([Cur EXCEPT !.in_cmap = TRUE], call.arg[1])
       IN  <<S.t, S.u, S.attrs, S.items, S.drops>> #
               <<code2cid, cid2unichr, attrs, cmap_bfrange_items, drop_bfrange_items>>
-----------------------------------------------------------------------------
(* The stores of the cache and the store being built.                      *)

\* The dict of the cached store of a name.
CachedDict(name) == heap[_cmap_cache[name]].code2cid

\* C24: whatever usecmap and cidchar statements a FileCMap is filled by, the
\* trie of every store in the cache is the one it was put into the cache with,
\* and no dict of the store being built is a dict of a cached store.
C24_CachedImmutable ==
    \A name \in DOMAIN _cmap_cache :
        /\ trie_of(heap, CachedDict(name)) = hist.pub[name]
        /\ Reach(heap, code2cid) \cap Reach(heap, CachedDict(name)) = {}

\* The store of A was copied into the target and a code was then inserted under
\* the first byte 1, where the target holds a copy of a dict of A.
C24_Witness ==
    /\ "A" \in DOMAIN _cmap_cache
    /\ "A" \in hist.used
    /\ call.arg[1] = "endcidchar"
    /\ call.exc = ""
    /\ call.arg[2][2].s \in {<<1, 0>>, <<1, 1>>}
    /\ trie_of(heap, code2cid)[call.arg[2][2].s] = Leaf(7)
    /\ trie_of(heap, CachedDict("A")) # trie_of(heap, code2cid)
-----------------------------------------------------------------------------
(* Threads in CMapDB.                                                      *)

\* The file that a name is built from.
FileOf(name) == _load_data(cmap_paths, name).data

\* The object id is a PyCMap with everything its __init__ gives it.
BuiltCMap(id, name) ==
    /\ heap[id].klass = "PyCMap"
    /\ heap[id].attrs = IF FileOf(name)["IS_VERTICAL"]
                        THEN Attr("CMapName", name) @@ Attr("WMode", 1)
                        ELSE Attr("CMapName", name)
    /\ heap[id].code2cid # NoRef
    /\ trie_of(heap, heap[id].code2cid) = FileOf(name)["CODE2CID"]

\* The object id is a PyUnicodeMap with everything its __init__ gives it.
BuiltUnicodeMap(id, name, vertical) ==
    /\ heap[id].klass = "PyUnicodeMap"
    /\ heap[id].attrs = IF vertical THEN Attr("CMapName", name) @@ Attr("WMode", 1)
                        ELSE Attr("CMapName", name)
    /\ heap[id].cid2unichr =
           FileOf("to-unicode-" \o name)[IF vertical THEN "CID2UNICHR_V" ELSE "CID2UNICHR_H"]

\* The call of thread t made by itself, with nothing in the caches.
Alone(t) ==
    db_run([h |-> << >>, c |-> << >>, u |-> << >>, paths |-> cmap_paths,
            t |-> [Idle EXCEPT !.op = t.op, !.name = t.name, !.vertical = t.vertical,
                               !.pc = "call"]]).t

\* C23: however the statements of the threads interleave, every store in a cache
\* is fully built, every call that returns returns a fully built store of its
\* name, and every call ends as it would have ended alone.
C23_AtomicPublish ==
    /\ \A name \in DOMAIN _cmap_cache : BuiltCMap(_cmap_cache[name], name)
    /\ \A name \in DOMAIN _umap_cache :
           /\ Len(_umap_cache[name]) = 2
           /\ BuiltUnicodeMap(_umap_cache[name][1], name, FALSE)
           /\ BuiltUnicodeMap(_umap_cache[name][2], name, TRUE)
    /\ \A i \in Threads :
           /\ threads[i].pc = "returned" =>
                  IF threads[i].op = "get_cmap" THEN BuiltCMap(threads[i].ret, threads[i].name)
                  ELSE BuiltUnicodeMap(threads[i].ret, threads[i].name, threads[i].vertical)
           /\ threads[i].pc \in {"returned", "raised"} =>
                  (Alone(threads[i]).pc = threads[i].pc /\ Alone(threads[i]).exc = threads[i].exc)

\* Two threads asked for the same name while it was not cached: both loaded the
\* file and each returned a store of its own.
C23_Witness ==
    \E i, j \in Threads :
        /\ i # j
        /\ threads[i].pc = "returned" /\ threads[j].pc = "returned"
        /\ threads[i].op = "get_cmap" /\ threads[j].op = "get_cmap"
        /\ threads[i].name = "A" /\ threads[j].name = "A"
        /\ threads[i].ret # threads[j].ret
        /\ hist.loads["A"] >= 2
        /\ _cmap_cache["A"] \in {threads[i].ret, threads[j].ret}
-----------------------------------------------------------------------------
(* Codes that are longer than a code of the trie.                          *)

\* The proper prefixes of code at which the trie holds a CID.
LeafBefore(T, code) ==
    {p \in {SubSeq(code, 1, k) : k \in 1..(Len(code) - 1)} : p \in DOMAIN T /\ T[p].leaf}

\* C25: add_code2cid(code, cid) with a code whose path meets a CID before its
\* last byte raises, and leaves the trie as it was: the shorter code still
\* decodes to its CID.
C25_PrefixConflict ==
    [][(call'.op = "add_code2cid" /\ hist'.n = hist.n + 1 /\ LeafBefore(code2cid, call'.arg) # {}) =>
           /\ call'.exc = "TypeError"
           /\ code2cid' = code2cid
           /\ \A p \in LeafBefore(code2cid, call'.arg) :
                  decode(code2cid', p) = [DecodeInit EXCEPT !.out = <<code2cid[p].cid>>]]_vars

\* A code was inserted, a longer code that begins with it was refused, and the
\* first code decodes to its CID.
C25_Witness ==
    /\ call.op = "add_code2cid"
    /\ call.exc = "TypeError"
    /\ \E k \in DOMAIN hist.pairs :
           /\ hist.pairs[k][1] \in LeafBefore(code2cid, call.arg)
           /\ code2cid[hist.pairs[k][1]] = Leaf(hist.pairs[k][2])
           /\ decode(code2cid, hist.pairs[k][1]).out = <<hist.pairs[k][2]>>
====
